---- MODULE Spec2Model ----
(***************************************************************************)
(* urdf-parser-ts: the tree normalizer (URDFParser) and the primitive      *)
(* coercion utilities (utils/parsing.ts).                                  *)
(*                                                                         *)
(* JavaScript values are tagged records: t is the tag.  A string is the    *)
(* sequence of its characters (one-character TLA+ strings), so that        *)
(* trim/split/parseFloat are computed and not assumed.  A number is a      *)
(* decimal: its significant digits, the count e of them that follow the    *)
(* point, and its sign, normalised (no leading zero digit, no trailing     *)
(* zero digit after the point); NaN is its own value.  An object is a function from its own     *)
(* keys to values; an array is a sequence of values.                       *)
(***************************************************************************)
EXTENDS Integers, Sequences, FiniteSets, TLC

VARIABLES parsed, outcome

vars == <<parsed, outcome>>

----------------------------------------------------------------------------
(* JavaScript values                                                       *)

Undef == [t |-> "undefined"]

Null == [t |-> "null"]

NaN == [t |-> "nan"]

Str(s) == [t |-> "string", s |-> s]

Digits == {"0", "1", "2", "3", "4", "5", "6", "7", "8", "9"}

DigitVal(c) ==
  CASE c = "0" -> 0 [] c = "1" -> 1 [] c = "2" -> 2 [] c = "3" -> 3
    [] c = "4" -> 4 [] c = "5" -> 5 [] c = "6" -> 6 [] c = "7" -> 7
    [] c = "8" -> 8 [] c = "9" -> 9

DigitChar(d) ==
  CASE d = 0 -> "0" [] d = 1 -> "1" [] d = 2 -> "2" [] d = 3 -> "3"
    [] d = 4 -> "4" [] d = 5 -> "5" [] d = 6 -> "6" [] d = 7 -> "7"
    [] d = 8 -> "8" [] d = 9 -> "9"

RECURSIVE NatToChars(_)
NatToChars(n) ==
  IF n < 10 THEN <<DigitChar(n)>>
  ELSE NatToChars(n \div 10) \o <<DigitChar(n % 10)>>

RECURSIVE StripLeadingZeros(_)
StripLeadingZeros(ds) ==
  IF Len(ds) > 1 /\ Head(ds) = "0" THEN StripLeadingZeros(Tail(ds)) ELSE ds

(* how many of the last e digits of ds are trailing zeros *)
RECURSIVE TrailingZeros(_, _)
TrailingZeros(ds, e) ==
  IF e > 0 /\ ds # <<>> /\ ds[Len(ds)] = "0"
  THEN 1 + TrailingZeros(SubSeq(ds, 1, Len(ds) - 1), e - 1)
  ELSE 0

Zero == [t |-> "number", neg |-> FALSE, digits |-> <<"0">>, e |-> 0]

(* the number written with the digits ds, the last e of them after the     *)
(* point (ds may be shorter than e: the value is then below 10^(Len-e))    *)
NumberOfDigits(ds, e, neg) ==
  IF \A i \in 1..Len(ds) : ds[i] = "0" THEN Zero
  ELSE [t |-> "number", neg |-> neg,
        digits |-> StripLeadingZeros(
                     SubSeq(ds, 1, Len(ds) - TrailingZeros(ds, e))),
        e |-> e - TrailingZeros(ds, e)]

(* the number m * 10^(-e) *)
MkNum(m, e) ==
  IF m < 0 THEN NumberOfDigits(NatToChars(0 - m), e, TRUE)
  ELSE NumberOfDigits(NatToChars(m), e, FALSE)

Num(n) == MkNum(n, 0)

Obj(f) == [t |-> "object", f |-> f]

Arr(a) == [t |-> "array", a |-> a]

NoFields == [k \in {} |-> Undef]

EmptyArr == Arr(<<>>)

EmptyStr == Str(<<>>)

(* ToBoolean: undefined, null, "", 0 and NaN are falsy; every object and   *)
(* array, every non-empty string and every non-zero number is truthy.      *)
Truthy(v) ==
  CASE v.t = "undefined" -> FALSE
    [] v.t = "null" -> FALSE
    [] v.t = "nan" -> FALSE
    [] v.t = "string" -> v.s # <<>>
    [] v.t = "number" -> v # Zero
    [] OTHER -> TRUE

(* a || b *)
OrElse(a, b) == IF Truthy(a) THEN a ELSE b

(* typeof v *)
TypeOf(v) ==
  CASE v.t = "undefined" -> "undefined"
    [] v.t = "nan" -> "number"
    [] v.t = "array" -> "object"
    [] v.t = "null" -> "object"
    [] OTHER -> v.t

(* v[key] for a key that is not an array index or a built-in property:     *)
(* own property of an object, undefined on strings, numbers and arrays.    *)
Get(v, key) ==
  IF v.t = "object" /\ key \in DOMAIN v.f THEN v.f[key] ELSE Undef

(* what reading a property of undefined or null raises *)
TypeError == [t |-> "TypeError"]

(* v[key] in general: reading a property of undefined or null raises *)
Member(v, key) ==
  IF v.t \in {"undefined", "null"} THEN TypeError ELSE Get(v, key)

Has(v, key) == v.t = "object" /\ key \in DOMAIN v.f

(* o with o[key] = val *)
Put(o, key, val) ==
  Obj([k \in DOMAIN o.f \cup {key} |-> IF k = key THEN val ELSE o.f[k]])

----------------------------------------------------------------------------
(* Characters                                                              *)

Whitespace == {" "}

(* String.prototype.trim *)
RECURSIVE TrimLeft(_)
TrimLeft(s) ==
  IF s # <<>> /\ Head(s) \in Whitespace THEN TrimLeft(Tail(s)) ELSE s

RECURSIVE TrimRight(_)
TrimRight(s) ==
  IF s # <<>> /\ s[Len(s)] \in Whitespace
  THEN TrimRight(SubSeq(s, 1, Len(s) - 1)) ELSE s

Trim(s) == TrimRight(TrimLeft(s))

(* String.prototype.split(/\s+/): the pieces between maximal runs of       *)
(* whitespace; the empty string splits into one empty piece.               *)
RECURSIVE SplitWs(_, _, _)
SplitWs(s, cur, acc) ==
  IF s = <<>> THEN Append(acc, cur)
  ELSE IF Head(s) \in Whitespace
       THEN SplitWs(TrimLeft(s), <<>>, Append(acc, cur))
       ELSE SplitWs(Tail(s), Append(cur, Head(s)), acc)

Split(s) == SplitWs(s, <<>>, <<>>)

(* the longest prefix of s made of digits *)
RECURSIVE DigitRun(_)
DigitRun(s) ==
  IF s # <<>> /\ Head(s) \in Digits THEN <<Head(s)>> \o DigitRun(Tail(s))
  ELSE <<>>

(* the decimal with integer digits ip and fraction digits fp *)
Decimal(ip, fp, neg) ==
  IF ip = <<>> /\ fp = <<>> THEN NaN
  ELSE NumberOfDigits(ip \o fp, Len(fp), neg)

(* the digits after a "." at the head of s, if any *)
FractionRun(s) ==
  IF s # <<>> /\ Head(s) = "." THEN DigitRun(Tail(s)) ELSE <<>>

AfterDigits(s, ip) == SubSeq(s, Len(ip) + 1, Len(s))

Unsigned(s, neg) ==
  Decimal(DigitRun(s), FractionRun(AfterDigits(s, DigitRun(s))), neg)

Signed(s) ==
  IF s # <<>> /\ Head(s) \in {"-", "+"}
  THEN Unsigned(Tail(s), Head(s) = "-")
  ELSE Unsigned(s, FALSE)

(* parseFloat on a string: leading whitespace is skipped, then the longest *)
(* prefix  [+-] digits [. digits]  or  [+-] . digits  is the value; no     *)
(* such prefix gives NaN.  (Exponents and Infinity are outside the         *)
(* alphabet of the modelled documents.)                                    *)
ParseFloatChars(s) == Signed(TrimLeft(s))

RECURSIVE PadZeros(_, _)
PadZeros(ds, n) == IF Len(ds) >= n THEN ds ELSE PadZeros(<<"0">> \o ds, n)

(* the digits ds of a magnitude written with e of them after the point *)
PointAt(ds, e) ==
  SubSeq(ds, 1, Len(ds) - e)
    \o (IF e > 0 THEN <<".">> \o SubSeq(ds, Len(ds) - e + 1, Len(ds))
        ELSE <<>>)

(* Number.prototype.toString for a decimal *)
NumToChars(v) ==
  IF v.t = "nan" THEN <<"N", "a", "N">>
  ELSE IF v.neg
  THEN <<"-">> \o PointAt(PadZeros(v.digits, v.e + 1), v.e)
  ELSE PointAt(PadZeros(v.digits, v.e + 1), v.e)

ObjectObjectChars ==
  <<"[", "o", "b", "j", "e", "c", "t", " ", "O", "b", "j", "e", "c", "t", "]">>

(* v.toString() for a value other than undefined *)
RECURSIVE ToChars(_)
RECURSIVE JoinChars(_)
ToChars(v) ==
  CASE v.t = "string" -> v.s
    [] v.t \in {"number", "nan"} -> NumToChars(v)
    [] v.t = "array" -> JoinChars(v.a)
    [] v.t = "undefined" -> <<>>
    [] OTHER -> ObjectObjectChars

JoinChars(a) ==
  IF a = <<>> THEN <<>>
  ELSE IF Len(a) = 1 THEN ToChars(a[1])
  ELSE ToChars(a[1]) \o <<",">> \o JoinChars(Tail(a))

(* parseFloat(v): the argument is converted to a string first *)
ParseFloat(v) == ParseFloatChars(ToChars(v))

----------------------------------------------------------------------------
(* utils/parsing.ts                                                        *)

(* the default of parseNumber's second parameter *)
DefaultNumber == Num(0)

(* a parameter with a default value: the default is bound when the         *)
(* argument is undefined                                                   *)
Defaulted(arg, default) == IF arg.t = "undefined" THEN default ELSE arg

(* isNaN(num) ? defaultValue : num *)
UnlessNaN(num, defaultValue) == IF num.t = "nan" THEN defaultValue ELSE num

(* parseNumber falling back to 0 whatever the default is *)
parseNumberZeroFallback(value, defaultValue) ==
  IF value.t = "undefined" THEN defaultValue
  ELSE UnlessNaN(ParseFloat(value), Num(0))

parseNumber(value, defaultValue) ==
  IF value.t = "undefined" THEN defaultValue
  ELSE UnlessNaN(ParseFloat(value), defaultValue)

Vector3(x, y, z) == Obj([k \in {"x", "y", "z"} |->
                           CASE k = "x" -> x [] k = "y" -> y [] k = "z" -> z])

ZeroVector == Vector3(Num(0), Num(0), Num(0))

(* parseVector3 from the split on, giving up the whole vector when one of  *)
(* the three tokens is not a number                                        *)
vectorOfPartsWholeFallback(parts, defaultValue) ==
  IF Len(parts) # 3 THEN defaultValue
  ELSE IF \E i \in 1..3 : ParseFloat(Str(parts[i])) = NaN THEN defaultValue
  ELSE Vector3(parseNumber(Str(parts[1]), defaultValue.f["x"]),
               parseNumber(Str(parts[2]), defaultValue.f["y"]),
               parseNumber(Str(parts[3]), defaultValue.f["z"]))

(* parseVector3 from the split on *)
vectorOfParts(parts, defaultValue) ==
  IF Len(parts) # 3 THEN defaultValue
  ELSE Vector3(parseNumber(Str(parts[1]), defaultValue.f["x"]),
               parseNumber(Str(parts[2]), defaultValue.f["y"]),
               parseNumber(Str(parts[3]), defaultValue.f["z"]))

(* parseVector3 taking the first three tokens of a longer split *)
parseVector3FirstThree(value, defaultValue) ==
  IF value.t = "undefined" THEN defaultValue
  ELSE IF Len(Split(Trim(value.s))) < 3 THEN defaultValue
  ELSE vectorOfParts(SubSeq(Split(Trim(value.s)), 1, 3), defaultValue)

parseVector3(value, defaultValue) ==
  IF value.t = "undefined" THEN defaultValue
  ELSE vectorOfParts(Split(Trim(value.s)), defaultValue)

DefaultRGBA == Arr(<<Num(0), Num(0), Num(0), Num(1)>>)

(* parseRGBA from the split on, with the first default entry as the        *)
(* fallback of every entry                                                 *)
rgbaOfPartsFirstDefault(parts, defaultValue) ==
  IF Len(parts) # 4 THEN defaultValue
  ELSE Arr(<<parseNumber(Str(parts[1]), defaultValue.a[1]),
             parseNumber(Str(parts[2]), defaultValue.a[1]),
             parseNumber(Str(parts[3]), defaultValue.a[1]),
             parseNumber(Str(parts[4]), defaultValue.a[1])>>)

(* parseRGBA from the split on *)
rgbaOfParts(parts, defaultValue) ==
  IF Len(parts) # 4 THEN defaultValue
  ELSE Arr(<<parseNumber(Str(parts[1]), defaultValue.a[1]),
             parseNumber(Str(parts[2]), defaultValue.a[2]),
             parseNumber(Str(parts[3]), defaultValue.a[3]),
             parseNumber(Str(parts[4]), defaultValue.a[4])>>)

parseRGBA(value, defaultValue) ==
  IF value.t = "undefined" THEN defaultValue
  ELSE rgbaOfParts(Split(Trim(value.s)), defaultValue)

(* whether ensureArray returns its argument itself (true) or an array it   *)
(* has just built (false)                                                  *)
ensureArrayReturnsArgument(element) ==
  IF element.t = "undefined" THEN FALSE ELSE element.t = "array"

(* ensureArray wrapping whatever it is given *)
ensureArrayAlwaysWraps(element) ==
  IF element.t = "undefined" THEN EmptyArr ELSE Arr(<<element>>)

ensureArray(element) ==
  IF element.t = "undefined" THEN EmptyArr
  ELSE IF element.t = "array" THEN element ELSE Arr(<<element>>)

AttributePrefix == "@_"

(* !obj || !obj[...] : the property is read only when obj is truthy.       *)
(* getAttributeUnguarded reads obj[...] without testing obj first.         *)
getAttributeUnguarded(obj, attributeName) ==
  IF ~Truthy(Member(obj, AttributePrefix \o attributeName)) THEN Undef
  ELSE Member(obj, AttributePrefix \o attributeName)

getAttribute(obj, attributeName) ==
  IF ~Truthy(obj) THEN Undef
  ELSE IF ~Truthy(Member(obj, AttributePrefix \o attributeName)) THEN Undef
  ELSE Member(obj, AttributePrefix \o attributeName)

----------------------------------------------------------------------------
(* parser/urdfParser.ts: per-entity conversion routines                    *)

(* An object built by "const o = {...}; if (c) o.k = v; ...": Fields maps  *)
(* each key to the value assigned to it, or to undefined when its guard    *)
(* failed and the key was never assigned.                                  *)
Assigned(fields) ==
  Obj([k \in {j \in DOMAIN fields : fields[j] # Undef} |-> fields[k]])

(* the value assigned under guard c *)
When(c, v) == IF c THEN v ELSE Undef

(* the origin block shared by inertial, visual, collision and joint *)
processOrigin(originData) ==
  Assigned(
    ("xyz" :> When(Truthy(getAttribute(originData, "xyz")),
                   parseVector3(getAttribute(originData, "xyz"), ZeroVector)))
    @@ ("rpy" :> When(Truthy(getAttribute(originData, "rpy")),
                      parseVector3(getAttribute(originData, "rpy"),
                                   ZeroVector))))

InertiaKeys == {"ixx", "ixy", "ixz", "iyy", "iyz", "izz"}

processInertial(inertialData) ==
  Assigned(
    ("origin" :> When(Truthy(Get(inertialData, "origin")),
                      processOrigin(Get(inertialData, "origin"))))
    @@ ("mass" :> When(Truthy(Get(inertialData, "mass")),
                       Obj("value" :> parseNumber(
                             getAttribute(Get(inertialData, "mass"), "value"),
                             Num(0)))))
    @@ ("inertia" :> When(Truthy(Get(inertialData, "inertia")),
                          Obj([k \in InertiaKeys |-> parseNumber(
                                 getAttribute(Get(inertialData, "inertia"), k),
                                 Num(0))]))))

(* the mesh block with the default of parseVector3 left at {0,0,0} *)
processMeshZeroDefault(mesh) ==
  Put(Assigned("scale" :> When(Truthy(getAttribute(mesh, "scale")),
                               parseVector3(getAttribute(mesh, "scale"),
                                            ZeroVector))),
      "filename", getAttribute(mesh, "filename"))

(* the mesh block of processGeometry: filename is always assigned (it may  *)
(* be undefined), scale only when the attribute is truthy                  *)
processMesh(mesh) ==
  Put(Assigned("scale" :> When(Truthy(getAttribute(mesh, "scale")),
                               parseVector3(getAttribute(mesh, "scale"),
                                            Vector3(Num(1), Num(1), Num(1))))),
      "filename", getAttribute(mesh, "filename"))

processGeometry(geometryData) ==
  Assigned(
    ("box" :> When(Truthy(Get(geometryData, "box")),
                   Obj("size" :> parseVector3(
                         getAttribute(Get(geometryData, "box"), "size"),
                         ZeroVector))))
    @@ ("cylinder" :> When(Truthy(Get(geometryData, "cylinder")),
                           Obj([k \in {"radius", "length"} |-> parseNumber(
                                  getAttribute(Get(geometryData, "cylinder"), k),
                                  Num(0))])))
    @@ ("sphere" :> When(Truthy(Get(geometryData, "sphere")),
                         Obj("radius" :> parseNumber(
                               getAttribute(Get(geometryData, "sphere"),
                                            "radius"),
                               Num(0)))))
    @@ ("mesh" :> When(Truthy(Get(geometryData, "mesh")),
                       processMesh(Get(geometryData, "mesh")))))

(* processMaterial with the color block entered whether or not the        *)
(* material has a color element                                            *)
processMaterialAlwaysColor(materialData) ==
  Assigned(
    ("name" :> When(Truthy(getAttribute(materialData, "name")),
                    getAttribute(materialData, "name")))
    @@ ("color" :> Obj("rgba" :> parseRGBA(
                         getAttribute(Get(materialData, "color"), "rgba"),
                         DefaultRGBA)))
    @@ ("texture" :> When(Truthy(Get(materialData, "texture")),
                          Obj("filename" :> getAttribute(
                                Get(materialData, "texture"), "filename")))))

processMaterial(materialData) ==
  Assigned(
    ("name" :> When(Truthy(getAttribute(materialData, "name")),
                    getAttribute(materialData, "name")))
    @@ ("color" :> When(Truthy(Get(materialData, "color")),
                        Obj("rgba" :> parseRGBA(
                              getAttribute(Get(materialData, "color"), "rgba"),
                              DefaultRGBA))))
    @@ ("texture" :> When(Truthy(Get(materialData, "texture")),
                          Obj("filename" :> getAttribute(
                                Get(materialData, "texture"), "filename")))))

processVisual(visualData) ==
  Assigned(
    ("name" :> When(Truthy(getAttribute(visualData, "name")),
                    getAttribute(visualData, "name")))
    @@ ("origin" :> When(Truthy(Get(visualData, "origin")),
                         processOrigin(Get(visualData, "origin"))))
    @@ ("geometry" :> When(Truthy(Get(visualData, "geometry")),
                           processGeometry(Get(visualData, "geometry"))))
    @@ ("material" :> When(Truthy(Get(visualData, "material")),
                           processMaterial(Get(visualData, "material")))))

processCollision(collisionData) ==
  Assigned(
    ("name" :> When(Truthy(getAttribute(collisionData, "name")),
                    getAttribute(collisionData, "name")))
    @@ ("origin" :> When(Truthy(Get(collisionData, "origin")),
                         processOrigin(Get(collisionData, "origin"))))
    @@ ("geometry" :> When(Truthy(Get(collisionData, "geometry")),
                           processGeometry(Get(collisionData, "geometry")))))

(* link.visual converted: ensureArray(link.visual).map(processVisual) *)
processVisuals(visualData) ==
  Arr([i \in 1..Len(ensureArray(visualData).a) |->
         processVisual(ensureArray(visualData).a[i])])

(* ensureArray(link.collision).map(processCollision) *)
processCollisions(collisionData) ==
  Arr([i \in 1..Len(ensureArray(collisionData).a) |->
         processCollision(ensureArray(collisionData).a[i])])

(* one iteration of the loop of processLinks for a link that has a name *)
processLink(link, name) ==
  Assigned(
    ("name" :> name)
    @@ ("inertial" :> When(Truthy(Get(link, "inertial")),
                           processInertial(Get(link, "inertial"))))
    @@ ("visuals" :> IF Truthy(Get(link, "visual"))
                     THEN processVisuals(Get(link, "visual"))
                     ELSE EmptyArr)
    @@ ("collisions" :> IF Truthy(Get(link, "collision"))
                        THEN processCollisions(Get(link, "collision"))
                        ELSE EmptyArr))

(* the loop of processLinks leaving at the first link without a name       *)
(* (break in place of continue)                                            *)
RECURSIVE processLinksLoopBreak(_, _)
processLinksLoopBreak(linkArray, links) ==
  IF linkArray = <<>> THEN links
  ELSE IF ~Truthy(getAttribute(Head(linkArray), "name")) THEN links
  ELSE processLinksLoopBreak(
         Tail(linkArray),
         Append(links, processLink(Head(linkArray),
                                   getAttribute(Head(linkArray), "name"))))

RECURSIVE processLinksLoop(_, _)
processLinksLoop(linkArray, links) ==
  IF linkArray = <<>> THEN links
  ELSE processLinksLoop(
         Tail(linkArray),
         IF ~Truthy(getAttribute(Head(linkArray), "name")) THEN links
         ELSE Append(links,
                     processLink(Head(linkArray),
                                 getAttribute(Head(linkArray), "name"))))

processLinks(linkData) == Arr(processLinksLoop(ensureArray(linkData).a, <<>>))

(* the mimic block of processJoints *)
(* processMimic with 0 as the fallback of the multiplier *)
processMimicZeroMultiplier(mimic) ==
  When(Truthy(getAttribute(mimic, "joint")),
       Obj(("joint" :> getAttribute(mimic, "joint"))
           @@ ("multiplier" :> parseNumber(getAttribute(mimic, "multiplier"),
                                           Num(0)))
           @@ ("offset" :> parseNumber(getAttribute(mimic, "offset"),
                                       Num(0)))))

processMimic(mimic) ==
  When(Truthy(getAttribute(mimic, "joint")),
       Obj(("joint" :> getAttribute(mimic, "joint"))
           @@ ("multiplier" :> parseNumber(getAttribute(mimic, "multiplier"),
                                           Num(1)))
           @@ ("offset" :> parseNumber(getAttribute(mimic, "offset"),
                                       Num(0)))))

(* one iteration of the loop of processJoints for a joint that passed the  *)
(* two validity checks                                                     *)
processJoint(joint, name, type) ==
  Assigned(
    ("name" :> name)
    @@ ("type" :> type)
    @@ ("parent" :> Obj("link" :> getAttribute(Get(joint, "parent"), "link")))
    @@ ("child" :> Obj("link" :> getAttribute(Get(joint, "child"), "link")))
    @@ ("origin" :> When(Truthy(Get(joint, "origin")),
                         processOrigin(Get(joint, "origin"))))
    @@ ("axis" :> When(Truthy(Get(joint, "axis")),
                       Obj("xyz" :> parseVector3(
                             getAttribute(Get(joint, "axis"), "xyz"),
                             Vector3(Num(1), Num(0), Num(0))))))
    @@ ("limit" :> When(Truthy(Get(joint, "limit")),
                        Obj([k \in {"lower", "upper", "effort", "velocity"} |->
                               parseNumber(getAttribute(Get(joint, "limit"), k),
                                           Num(0))])))
    @@ ("dynamics" :> When(Truthy(Get(joint, "dynamics")),
                           Obj([k \in {"damping", "friction"} |->
                                  parseNumber(
                                    getAttribute(Get(joint, "dynamics"), k),
                                    Num(0))])))
    @@ ("calibration" :> When(Truthy(Get(joint, "calibration")),
                              Obj([k \in {"rising", "falling"} |->
                                     parseNumber(
                                       getAttribute(Get(joint, "calibration"),
                                                    k),
                                       Num(0))])))
    @@ ("mimic" :> When(Truthy(Get(joint, "mimic")),
                        processMimic(Get(joint, "mimic")))))

(* the skip conditions of processJoints without the checks of the link     *)
(* attributes of parent and child                                          *)
jointSkippedNoLinkCheck(joint) ==
  \/ ~Truthy(getAttribute(joint, "name"))
  \/ ~Truthy(getAttribute(joint, "type"))
  \/ ~Truthy(Get(joint, "parent"))
  \/ ~Truthy(Get(joint, "child"))

(* the two skip conditions of the loop of processJoints *)
jointSkipped(joint) ==
  \/ ~Truthy(getAttribute(joint, "name"))
  \/ ~Truthy(getAttribute(joint, "type"))
  \/ ~Truthy(Get(joint, "parent"))
  \/ ~Truthy(Get(joint, "child"))
  \/ ~Truthy(getAttribute(Get(joint, "parent"), "link"))
  \/ ~Truthy(getAttribute(Get(joint, "child"), "link"))

RECURSIVE processJointsLoop(_, _)
processJointsLoop(jointArray, joints) ==
  IF jointArray = <<>> THEN joints
  ELSE processJointsLoop(
         Tail(jointArray),
         IF jointSkipped(Head(jointArray)) THEN joints
         ELSE Append(joints,
                     processJoint(Head(jointArray),
                                  getAttribute(Head(jointArray), "name"),
                                  getAttribute(Head(jointArray), "type"))))

processJoints(jointData) ==
  Arr(processJointsLoop(ensureArray(jointData).a, <<>>))

(* processMaterials taking the entry for one node, without ensureArray *)
processMaterialsOfOneNode(materialData) ==
  Arr(<<processMaterial(materialData)>>)

processMaterials(materialData) ==
  Arr([i \in 1..Len(ensureArray(materialData).a) |->
         processMaterial(ensureArray(materialData).a[i])])

TextKey == "#text"

(* the type block of processTransmissions, for a truthy type *)
transmissionType(type) ==
  IF TypeOf(type) = "object" /\ Truthy(Get(type, TextKey))
  THEN Get(type, TextKey)
  ELSE IF TypeOf(type) = "string" THEN type
  ELSE Str(ToChars(type))

(* the mechanicalReduction block of processTransmissions *)
mechanicalReduction(reduction) ==
  IF ~Truthy(reduction) THEN Undef
  ELSE IF TypeOf(reduction) = "object" /\ Truthy(Get(reduction, TextKey))
  THEN parseNumber(Get(reduction, TextKey), Num(0))
  ELSE IF TypeOf(reduction) \in {"string", "number"}
  THEN parseNumber(Str(ToChars(reduction)), Num(0))
  ELSE Undef

(* one iteration of the loop of processTransmissions *)
processTransmission(transmission) ==
  Assigned(
    ("name" :> When(Truthy(getAttribute(transmission, "name")),
                    getAttribute(transmission, "name")))
    @@ ("type" :> When(Truthy(Get(transmission, "type")),
                       transmissionType(Get(transmission, "type"))))
    @@ ("joint" :> When(Truthy(Get(transmission, "joint")),
                        Obj("name" :> OrElse(
                              getAttribute(Get(transmission, "joint"), "name"),
                              EmptyStr))))
    @@ ("actuator" :>
          When(Truthy(Get(transmission, "actuator")),
               Assigned(
                 ("name" :> OrElse(
                    getAttribute(Get(transmission, "actuator"), "name"),
                    EmptyStr))
                 @@ ("mechanicalReduction" :> mechanicalReduction(
                       Get(Get(transmission, "actuator"),
                           "mechanicalReduction")))))))

processTransmissions(transmissionData) ==
  Arr([i \in 1..Len(ensureArray(transmissionData).a) |->
         processTransmission(ensureArray(transmissionData).a[i])])

MissingRobotMessage == "Invalid URDF: Missing robot element"

Thrown(message) == [kind |-> "thrown", message |-> message]

Returned(value) == [kind |-> "returned", robot |-> value]

(* processURDF with the four collections copied from the raw node as they  *)
(* are, without the per-collection conversion                              *)
processURDFUnnormalized(parsedTree) ==
  IF ~Truthy(Get(parsedTree, "robot")) THEN Thrown(MissingRobotMessage)
  ELSE LET robot == Get(parsedTree, "robot")
       IN  Returned(Obj(("name" :> OrElse(getAttribute(robot, "name"),
                                          EmptyStr))
                        @@ ("links" :> Get(robot, "link"))
                        @@ ("joints" :> Get(robot, "joint"))
                        @@ ("materials" :> Get(robot, "material"))
                        @@ ("transmissions" :> Get(robot, "transmission"))))

(* processURDF without the root-element check: a missing robot is treated  *)
(* as an empty one                                                         *)
processURDFLenient(parsedTree) ==
  Returned(Obj(("name" :> EmptyStr) @@ ("links" :> EmptyArr)
               @@ ("joints" :> EmptyArr) @@ ("materials" :> EmptyArr)
               @@ ("transmissions" :> EmptyArr)))

processURDF(parsedTree) ==
  IF ~Truthy(Get(parsedTree, "robot")) THEN Thrown(MissingRobotMessage)
  ELSE LET robot == Get(parsedTree, "robot")
           links == processLinks(OrElse(Get(robot, "link"), EmptyArr))
           joints == processJoints(OrElse(Get(robot, "joint"), EmptyArr))
           materials ==
             processMaterials(OrElse(Get(robot, "material"), EmptyArr))
           transmissions ==
             processTransmissions(OrElse(Get(robot, "transmission"), EmptyArr))
       IN  Returned(Obj(("name" :> OrElse(getAttribute(robot, "name"),
                                          EmptyStr))
                        @@ ("links" :> links)
                        @@ ("joints" :> joints)
                        @@ ("materials" :> materials)
                        @@ ("transmissions" :> transmissions)))

----------------------------------------------------------------------------
(* The raw trees the XML layer hands to processURDF.  An element with      *)
(* attributes or children is an object (attributes under "@_" keys); an    *)
(* element with neither is the empty string; an element with only text is  *)
(* that text; repeated sibling elements are an array of such nodes.        *)

MaxNodes == 2

MaxLen == 5

NameA == Str(<<"a">>)

NameB == Str(<<"b">>)

EmptyElement == EmptyStr

TextElement == Str(<<"x">>)

(* the object with the fields of f that are not undefined *)
Node(f) == Obj([k \in {j \in DOMAIN f : f[j] # Undef} |-> f[k]])

(* the sequences of at most n elements of S *)
SeqsUpTo(S, n) == UNION {[1..k -> S] : k \in 0..n}

(* a child entry: absent, a single node, or an array of 1..MaxNodes nodes *)
Entries(nodes) ==
  {Undef} \cup nodes \cup {Arr(q) : q \in SeqsUpTo(nodes, MaxNodes) \ {<<>>}}

RobotTree(robot) == Obj("robot" :> robot)

(* --- documents that vary the robot element and its four collections --- *)

SimpleLink == Obj("@_name" :> NameA)

Fixed == Str(<<"f", "i", "x", "e", "d">>)

SimpleJoint ==
  Obj(("@_name" :> NameA) @@ ("@_type" :> Fixed)
      @@ ("parent" :> Obj("@_link" :> NameA))
      @@ ("child" :> Obj("@_link" :> NameB)))

SimpleMaterial == Obj("@_name" :> NameA)

SimpleTransmission == Obj("@_name" :> NameB)

RobotNodes ==
  {EmptyElement, TextElement, Obj("@_name" :> NameA),
   Obj("@_name" :> EmptyStr),
   Obj(("@_name" :> NameB) @@ ("link" :> SimpleLink))}
    \cup ({Node(("link" :> l) @@ ("joint" :> j)
                @@ ("material" :> m) @@ ("transmission" :> t)) :
             l \in Entries({EmptyElement, SimpleLink}),
             j \in Entries({EmptyElement, SimpleJoint}),
             m \in Entries({EmptyElement, SimpleMaterial}),
             t \in Entries({EmptyElement, SimpleTransmission})}
          \ {Obj(NoFields)})

RobotDocs ==
  {Obj("not_a_robot" :> EmptyElement), Obj("not_a_robot" :> SimpleLink)}
    \cup {RobotTree(r) : r \in RobotNodes}

(* --- documents that vary the link nodes --- *)

SimpleMass == Obj("@_value" :> Str(<<"2">>))

LinkNodes ==
  {EmptyElement, TextElement}
    \cup ({Node(("@_name" :> n) @@ ("inertial" :> i) @@ ("visual" :> v)) :
             n \in {Undef, EmptyStr, NameA, NameB},
             i \in {Undef, Obj("mass" :> SimpleMass)},
             v \in {Undef, Obj("@_name" :> NameB)}}
          \ {Obj(NoFields)})

LinkDocs ==
  {RobotTree(Obj("link" :> l)) : l \in Entries(LinkNodes) \ {Undef}}

(* --- documents that vary the joint nodes --- *)

Continuous == Str(<<"c", "o", "n", "t", "i", "n", "u", "o", "u", "s">>)

Bogus == Str(<<"b", "o", "g", "u", "s">>)

AxisNodes ==
  {Undef, EmptyElement,
   Obj("@_xyz" :> Str(<<"0", " ", "1", " ", "0">>)),
   Obj("@_xyz" :> Str(<<"0", " ", "a", " ", "2">>)),
   Obj("@_xyz" :> Str(<<"1", " ", "0">>)),
   Obj("@_xyz" :> EmptyStr),
   Obj("@_rpy" :> Str(<<"0", " ", "0", " ", "1">>))}

JointNodes ==
  {EmptyElement, TextElement}
    \cup ({Node(("@_name" :> n) @@ ("@_type" :> t) @@ ("parent" :> p)
                @@ ("child" :> c) @@ ("axis" :> a)) :
             n \in {Undef, EmptyStr, NameA},
             t \in {Undef, EmptyStr, Continuous, Bogus},
             p \in {Undef, EmptyElement, Obj("@_link" :> EmptyStr),
                    Obj("@_link" :> NameA)},
             c \in {Undef, EmptyElement, Obj("@_link" :> EmptyStr),
                    Obj("@_link" :> NameB)},
             a \in AxisNodes}
          \ {Obj(NoFields)})

AxisJoint(name, axis) ==
  Node(("@_name" :> name) @@ ("@_type" :> Continuous)
       @@ ("parent" :> Obj("@_link" :> NameA))
       @@ ("child" :> Obj("@_link" :> NameB)) @@ ("axis" :> axis))

(* the nodes used in arrays of joints *)
JointSiblings ==
  {EmptyElement, SimpleJoint, AxisJoint(NameB, EmptyElement),
   AxisJoint(EmptyStr, Undef), AxisJoint(NameB, Obj("@_xyz" :> EmptyStr)),
   Node(("@_name" :> NameB) @@ ("@_type" :> Bogus)
        @@ ("parent" :> Obj("@_link" :> NameB))
        @@ ("child" :> Obj("@_link" :> NameA))),
   Node(("@_name" :> NameA) @@ ("@_type" :> Fixed)
        @@ ("parent" :> Obj("@_link" :> NameA)))}

JointDocs ==
  {RobotTree(Obj("joint" :> j)) :
     j \in JointNodes \cup {Arr(<<n>>) : n \in JointNodes}
             \cup (Entries(JointSiblings) \ {Undef})}

(* --- documents that vary the geometry of the one visual of one link --- *)

ScaleAlphabet == {"1", "2", "a", " "}

ScaleStrings == {Str(q) : q \in SeqsUpTo(ScaleAlphabet, MaxLen)}

MeshFile == Str(<<"m">>)

BoxNodes == {Undef, EmptyElement,
             Obj("@_size" :> Str(<<"1", " ", "2", " ", "3">>))}

CylinderNodes == {Undef, EmptyElement,
                  Obj(("@_radius" :> Str(<<"1">>))
                      @@ ("@_length" :> Str(<<"2">>)))}

SphereNodes == {Undef, EmptyElement, Obj("@_radius" :> Str(<<"2">>))}

MeshNodes == {Undef, EmptyElement, Obj("@_filename" :> MeshFile),
              Obj(("@_filename" :> MeshFile)
                  @@ ("@_scale" :> Str(<<"2", " ", "2", " ", "2">>)))}

GeometryNodes ==
  {EmptyElement}
    \cup ({Node(("box" :> b) @@ ("cylinder" :> c) @@ ("sphere" :> s)
                @@ ("mesh" :> m)) :
             b \in BoxNodes, c \in CylinderNodes, s \in SphereNodes,
             m \in MeshNodes}
          \ {Obj(NoFields)})
    \cup {Obj("mesh" :> Obj(("@_filename" :> MeshFile) @@ ("@_scale" :> z))) :
            z \in ScaleStrings}

VisualTree(geometry) ==
  RobotTree(Obj("link" :> Obj(("@_name" :> NameA)
                              @@ ("visual" :> Obj("geometry" :> geometry)))))

GeometryDocs == {VisualTree(g) : g \in GeometryNodes}

(* --- documents that vary the body of one link: its inertial, its    --- *)
(* --- visuals (with inline materials) and its collisions, next to    --- *)
(* --- root-level materials                                               *)

Vec123 == Str(<<"1", " ", "2", " ", "3">>)

Red == Str(<<"1", " ", "0", " ", "0", " ", "1">>)

OriginNodes == {Undef, EmptyElement, Obj("@_xyz" :> Vec123)}

MassNodes == {Undef, EmptyElement, SimpleMass}

InertiaNodes == {Undef, EmptyElement, Obj("@_ixx" :> Str(<<"1">>))}

InertialNodes ==
  {Undef, EmptyElement}
    \cup ({Node(("origin" :> o) @@ ("mass" :> m) @@ ("inertia" :> i)) :
             o \in OriginNodes, m \in MassNodes, i \in InertiaNodes}
          \ {Obj(NoFields)})

ColoredMaterial(name) ==
  Obj(("@_name" :> name) @@ ("color" :> Obj("@_rgba" :> Red)))

(* the material element of a visual *)
InlineMaterials ==
  {Undef, EmptyElement, Obj("@_name" :> NameA), Obj("@_name" :> NameB),
   ColoredMaterial(NameA),
   Obj(("@_name" :> NameA) @@ ("texture" :> Obj("@_filename" :> MeshFile)))}

BodyGeometries == {Undef, EmptyElement, Obj("box" :> Obj("@_size" :> Vec123))}

VisualNodes ==
  {EmptyElement}
    \cup ({Node(("origin" :> o) @@ ("geometry" :> g) @@ ("material" :> m)) :
             o \in OriginNodes, g \in BodyGeometries, m \in InlineMaterials}
          \ {Obj(NoFields)})

(* the nodes used in arrays of visuals *)
VisualSiblings ==
  {EmptyElement, Obj("@_name" :> NameB), Obj("material" :> Obj("@_name" :> NameA))}

CollisionNodes ==
  {EmptyElement, Obj("@_name" :> NameB)}
    \cup ({Node(("origin" :> o) @@ ("geometry" :> g)) :
             o \in OriginNodes, g \in BodyGeometries}
          \ {Obj(NoFields)})

(* the material entry of the robot element *)
RootMaterials ==
  {Undef, ColoredMaterial(NameA),
   Arr(<<ColoredMaterial(NameB), SimpleMaterial>>)}

BodyTree(inertial, visual, collision, material) ==
  RobotTree(Node(("link" :> Node(("@_name" :> NameA) @@ ("inertial" :> inertial)
                                 @@ ("visual" :> visual)
                                 @@ ("collision" :> collision)))
                 @@ ("material" :> material)))

InertialDocs == {BodyTree(i, Undef, Undef, Undef) : i \in InertialNodes}

VisualDocs ==
  {BodyTree(Undef, v, Undef, m) :
     v \in VisualNodes \cup Entries(VisualSiblings), m \in RootMaterials}

CollisionDocs == {BodyTree(Undef, Undef, c, Undef) : c \in Entries(CollisionNodes)}

BodyDocs == InertialDocs \cup VisualDocs \cup CollisionDocs

(* --- documents that vary the text-bearing elements of a transmission --- *)

(* what the XML layer makes of the text of an element: a string, or the    *)
(* number it reads as                                                      *)
TextValues ==
  {Str(<<"x">>), Str(<<"1", "0">>), Num(50), Num(0), MkNum(25, 1)}

(* an element with that text and no attribute, and with an attribute *)
TextShapes(text) == {text, Obj((TextKey :> text) @@ ("@_a" :> NameA))}

TextElements ==
  {Undef, EmptyElement, Obj("@_a" :> NameA)}
    \cup UNION {TextShapes(text) : text \in TextValues}

ActuatorNodes ==
  {Undef, EmptyElement}
    \cup ({Node(("@_name" :> n) @@ ("mechanicalReduction" :> r)) :
             n \in {Undef, NameA}, r \in TextElements}
          \ {Obj(NoFields)})

TransmissionNodes ==
  {EmptyElement}
    \cup ({Node(("@_name" :> n) @@ ("type" :> t) @@ ("actuator" :> a)) :
             n \in {Undef, NameB}, t \in TextElements, a \in ActuatorNodes}
          \ {Obj(NoFields)})

TransmissionDocs ==
  {RobotTree(Obj("transmission" :> t)) :
     t \in TransmissionNodes
             \cup {Arr(q) : q \in SeqsUpTo({EmptyElement, SimpleTransmission,
                                            Obj("type" :> Num(0)),
                                            Obj("type" :> TextElement)},
                                           MaxNodes) \ {<<>>}}}

(* --- documents that vary the mimic element of one complete joint --- *)

MimicJoints == {Undef, EmptyStr, NameB}

MimicNumbers ==
  {Undef, EmptyStr, Str(<<"2">>), Str(<<".", "5">>), Str(<<"a">>),
   Str(<<"2", "a">>)}

MimicNodes ==
  {Undef, EmptyElement}
    \cup ({Node(("@_joint" :> j) @@ ("@_multiplier" :> m)
                @@ ("@_offset" :> f)) :
             j \in MimicJoints, m \in MimicNumbers, f \in MimicNumbers}
          \ {Obj(NoFields)})

MimicJoint(mimic) ==
  Node(("@_name" :> NameA) @@ ("@_type" :> Continuous)
       @@ ("parent" :> Obj("@_link" :> NameA))
       @@ ("child" :> Obj("@_link" :> NameB)) @@ ("mimic" :> mimic))

MimicDocs ==
  {RobotTree(Obj("joint" :> MimicJoint(m))) : m \in MimicNodes}
    \cup {RobotTree(Obj("joint" :> Arr(<<SimpleJoint, MimicJoint(m)>>))) :
            m \in MimicNodes}

(* --- documents that vary the origin element of the inertial, the visual  *)
(* and the collision of one link and of one joint ---                      *)

Rpy001 == Str(<<"0", " ", "0", " ", "1">>)

OriginShapes ==
  {Undef, EmptyElement, Obj("@_a" :> NameA)}
    \cup ({Node(("@_xyz" :> x) @@ ("@_rpy" :> r)) :
             x \in {Undef, EmptyStr, Vec123},
             r \in {Undef, EmptyStr, Rpy001}}
          \ {Obj(NoFields)})

OriginPlaces == {"inertial", "visual", "collision", "joint"}

SimpleBox == Obj("box" :> Obj("@_size" :> Vec123))

(* origin is the origin element of the places named, the others have none; *)
(* the axis element of the joint has no xyz attribute                      *)
OriginTree(origin, places) ==
  RobotTree(Obj(
    ("link" :>
       Obj(("@_name" :> NameA)
           @@ ("inertial" :>
                 Node(("mass" :> SimpleMass)
                      @@ ("origin" :> When("inertial" \in places, origin))))
           @@ ("visual" :>
                 Node(("geometry" :> SimpleBox)
                      @@ ("origin" :> When("visual" \in places, origin))))
           @@ ("collision" :>
                 Node(("geometry" :> SimpleBox)
                      @@ ("origin" :> When("collision" \in places, origin))))))
    @@ ("joint" :>
          Node(("@_name" :> NameA) @@ ("@_type" :> Continuous)
               @@ ("parent" :> Obj("@_link" :> NameA))
               @@ ("child" :> Obj("@_link" :> NameB))
               @@ ("axis" :> Obj("@_a" :> NameA))
               @@ ("origin" :> When("joint" \in places, origin))))))

OriginDocs ==
  {OriginTree(o, q) : o \in OriginShapes \ {Undef},
                      q \in (SUBSET OriginPlaces) \ {{}}}

(* --- the sample document, sample_robot.urdf, as the XML layer returns it: *)
(* attribute values are strings, the text of an element is a number when   *)
(* it reads as one, repeated sibling elements are an array, comments are   *)
(* left out ---                                                            *)

SampleMaterials ==
  Arr(<<
    Obj(("@_name" :> Str(<<"b", "l", "u", "e">>))
            @@ ("color" :>
            Obj(("@_rgba" :> Str(<<"0", " ", "0", " ", "1", " ",
                      "1">>))))),
    Obj(("@_name" :> Str(<<"b", "l", "a", "c", "k">>))
            @@ ("color" :>
            Obj(("@_rgba" :> Str(<<"0", " ", "0", " ", "0", " ",
                      "1">>))))),
    Obj(("@_name" :> Str(<<"g", "r", "a", "y">>))
            @@ ("color" :>
            Obj(("@_rgba" :> Str(<<"0", ".", "5", " ", "0", ".", "5",
                      " ", "0", ".", "5", " ", "1">>))))),
    Obj(("@_name" :> Str(<<"r", "e", "d">>))
            @@ ("color" :>
            Obj(("@_rgba" :> Str(<<"1", " ", "0", " ", "0", " ",
                      "1">>))))),
    Obj(("@_name" :> Str(<<"t", "e", "x", "t", "u", "r", "e",
                  "d">>))
            @@ ("color" :>
            Obj(("@_rgba" :> Str(<<"1", " ", "1", " ", "1", " ",
                      "1">>))))
            @@ ("texture" :>
            Obj(("@_filename" :> Str(<<"t", "e", "x", "t", "u", "r", "e",
                      "s", "/", "d", "e", "f", "a", "u", "l",
                      "t", ".", "p", "n", "g">>)))))>>)

SampleLinks ==
  Arr(<<
    Obj(("@_name" :> Str(<<"b", "a", "s", "e", "_", "l", "i",
                  "n", "k">>))
            @@ ("inertial" :>
            Obj(("origin" :>
                Obj(("@_xyz" :> Str(<<"0", " ", "0", " ", "0">>))
                    @@ ("@_rpy" :> Str(<<"0", " ", "0", " ", "0">>))))
                @@ ("mass" :>
                Obj(("@_value" :> Str(<<"1", ".", "0">>))))
                @@ ("inertia" :>
                Obj(("@_ixx" :> Str(<<"0", ".", "1">>))
                    @@ ("@_ixy" :> Str(<<"0">>))
                    @@ ("@_ixz" :> Str(<<"0">>))
                    @@ ("@_iyy" :> Str(<<"0", ".", "1">>))
                    @@ ("@_iyz" :> Str(<<"0">>))
                    @@ ("@_izz" :> Str(<<"0", ".", "1">>))))))
            @@ ("visual" :>
            Obj(("origin" :>
                Obj(("@_xyz" :> Str(<<"0", " ", "0", " ", "0">>))
                    @@ ("@_rpy" :> Str(<<"0", " ", "0", " ", "0">>))))
                @@ ("geometry" :>
                Obj(("box" :>
                    Obj(("@_size" :> Str(<<"0", ".", "2", " ", "0",
                              ".", "2", " ", "0", ".", "1">>))))))
                @@ ("material" :>
                Obj(("@_name" :> Str(<<"b", "l", "u", "e">>))))))
            @@ ("collision" :>
            Obj(("origin" :>
                Obj(("@_xyz" :> Str(<<"0", " ", "0", " ", "0">>))
                    @@ ("@_rpy" :> Str(<<"0", " ", "0", " ", "0">>))))
                @@ ("geometry" :>
                Obj(("box" :>
                    Obj(("@_size" :> Str(<<"0", ".", "2", " ", "0",
                              ".", "2", " ", "0", ".", "1">>))))))))),
    Obj(("@_name" :> Str(<<"r", "i", "g", "h", "t", "_", "w",
                  "h", "e", "e", "l">>))
            @@ ("inertial" :>
            Obj(("origin" :>
                Obj(("@_xyz" :> Str(<<"0", " ", "0", " ", "0">>))
                    @@ ("@_rpy" :> Str(<<"0", " ", "0", " ", "0">>))))
                @@ ("mass" :>
                Obj(("@_value" :> Str(<<"0", ".", "5">>))))
                @@ ("inertia" :>
                Obj(("@_ixx" :> Str(<<"0", ".", "0", "5">>))
                    @@ ("@_ixy" :> Str(<<"0">>))
                    @@ ("@_ixz" :> Str(<<"0">>))
                    @@ ("@_iyy" :> Str(<<"0", ".", "0", "5">>))
                    @@ ("@_iyz" :> Str(<<"0">>))
                    @@ ("@_izz" :> Str(<<"0", ".", "0", "5">>))))))
            @@ ("visual" :>
            Obj(("origin" :>
                Obj(("@_xyz" :> Str(<<"0", " ", "0", " ", "0">>))
                    @@ ("@_rpy" :> Str(<<"1", ".", "5", "7", "0", "7",
                          "9", "6", "3", "2", "6", "7", "9",
                          " ", "0", " ", "0">>))))
                @@ ("geometry" :>
                Obj(("cylinder" :>
                    Obj(("@_radius" :> Str(<<"0", ".", "1">>))
                        @@ ("@_length" :> Str(<<"0", ".", "0", "5">>))))))
                @@ ("material" :>
                Obj(("@_name" :> Str(<<"b", "l", "a", "c", "k">>))))))
            @@ ("collision" :>
            Obj(("origin" :>
                Obj(("@_xyz" :> Str(<<"0", " ", "0", " ", "0">>))
                    @@ ("@_rpy" :> Str(<<"1", ".", "5", "7", "0", "7",
                          "9", "6", "3", "2", "6", "7", "9",
                          " ", "0", " ", "0">>))))
                @@ ("geometry" :>
                Obj(("cylinder" :>
                    Obj(("@_radius" :> Str(<<"0", ".", "1">>))
                        @@ ("@_length" :> Str(<<"0", ".", "0", "5">>))))))))),
    Obj(("@_name" :> Str(<<"l", "e", "f", "t", "_", "w", "h",
                  "e", "e", "l">>))
            @@ ("inertial" :>
            Obj(("origin" :>
                Obj(("@_xyz" :> Str(<<"0", " ", "0", " ", "0">>))
                    @@ ("@_rpy" :> Str(<<"0", " ", "0", " ", "0">>))))
                @@ ("mass" :>
                Obj(("@_value" :> Str(<<"0", ".", "5">>))))
                @@ ("inertia" :>
                Obj(("@_ixx" :> Str(<<"0", ".", "0", "5">>))
                    @@ ("@_ixy" :> Str(<<"0">>))
                    @@ ("@_ixz" :> Str(<<"0">>))
                    @@ ("@_iyy" :> Str(<<"0", ".", "0", "5">>))
                    @@ ("@_iyz" :> Str(<<"0">>))
                    @@ ("@_izz" :> Str(<<"0", ".", "0", "5">>))))))
            @@ ("visual" :>
            Obj(("origin" :>
                Obj(("@_xyz" :> Str(<<"0", " ", "0", " ", "0">>))
                    @@ ("@_rpy" :> Str(<<"1", ".", "5", "7", "0", "7",
                          "9", "6", "3", "2", "6", "7", "9",
                          " ", "0", " ", "0">>))))
                @@ ("geometry" :>
                Obj(("cylinder" :>
                    Obj(("@_radius" :> Str(<<"0", ".", "1">>))
                        @@ ("@_length" :> Str(<<"0", ".", "0", "5">>))))))
                @@ ("material" :>
                Obj(("@_name" :> Str(<<"b", "l", "a", "c", "k">>))))))
            @@ ("collision" :>
            Obj(("origin" :>
                Obj(("@_xyz" :> Str(<<"0", " ", "0", " ", "0">>))
                    @@ ("@_rpy" :> Str(<<"1", ".", "5", "7", "0", "7",
                          "9", "6", "3", "2", "6", "7", "9",
                          " ", "0", " ", "0">>))))
                @@ ("geometry" :>
                Obj(("cylinder" :>
                    Obj(("@_radius" :> Str(<<"0", ".", "1">>))
                        @@ ("@_length" :> Str(<<"0", ".", "0", "5">>))))))))),
    Obj(("@_name" :> Str(<<"c", "a", "s", "t", "e", "r">>))
            @@ ("inertial" :>
            Obj(("origin" :>
                Obj(("@_xyz" :> Str(<<"0", " ", "0", " ", "0">>))
                    @@ ("@_rpy" :> Str(<<"0", " ", "0", " ", "0">>))))
                @@ ("mass" :>
                Obj(("@_value" :> Str(<<"0", ".", "1">>))))
                @@ ("inertia" :>
                Obj(("@_ixx" :> Str(<<"0", ".", "0", "1">>))
                    @@ ("@_ixy" :> Str(<<"0">>))
                    @@ ("@_ixz" :> Str(<<"0">>))
                    @@ ("@_iyy" :> Str(<<"0", ".", "0", "1">>))
                    @@ ("@_iyz" :> Str(<<"0">>))
                    @@ ("@_izz" :> Str(<<"0", ".", "0", "1">>))))))
            @@ ("visual" :>
            Obj(("origin" :>
                Obj(("@_xyz" :> Str(<<"0", " ", "0", " ", "0">>))
                    @@ ("@_rpy" :> Str(<<"0", " ", "0", " ", "0">>))))
                @@ ("geometry" :>
                Obj(("sphere" :>
                    Obj(("@_radius" :> Str(<<"0", ".", "0", "5">>))))))
                @@ ("material" :>
                Obj(("@_name" :> Str(<<"g", "r", "a", "y">>))))))
            @@ ("collision" :>
            Obj(("origin" :>
                Obj(("@_xyz" :> Str(<<"0", " ", "0", " ", "0">>))
                    @@ ("@_rpy" :> Str(<<"0", " ", "0", " ", "0">>))))
                @@ ("geometry" :>
                Obj(("sphere" :>
                    Obj(("@_radius" :> Str(<<"0", ".", "0", "5">>))))))))),
    Obj(("@_name" :> Str(<<"a", "r", "m">>))
            @@ ("inertial" :>
            Obj(("origin" :>
                Obj(("@_xyz" :> Str(<<"0", " ", "0", " ", "0", ".",
                          "1", "5">>))
                    @@ ("@_rpy" :> Str(<<"0", " ", "0", " ", "0">>))))
                @@ ("mass" :>
                Obj(("@_value" :> Str(<<"0", ".", "3">>))))
                @@ ("inertia" :>
                Obj(("@_ixx" :> Str(<<"0", ".", "0", "3">>))
                    @@ ("@_ixy" :> Str(<<"0">>))
                    @@ ("@_ixz" :> Str(<<"0">>))
                    @@ ("@_iyy" :> Str(<<"0", ".", "0", "3">>))
                    @@ ("@_iyz" :> Str(<<"0">>))
                    @@ ("@_izz" :> Str(<<"0", ".", "0", "3">>))))))
            @@ ("visual" :>
            Obj(("origin" :>
                Obj(("@_xyz" :> Str(<<"0", " ", "0", " ", "0", ".",
                          "1", "5">>))
                    @@ ("@_rpy" :> Str(<<"0", " ", "0", " ", "0">>))))
                @@ ("geometry" :>
                Obj(("mesh" :>
                    Obj(("@_filename" :> Str(<<"m", "e", "s", "h", "e",
                              "s", "/", "a", "r", "m", ".",
                              "s", "t", "l">>))
                        @@ ("@_scale" :> Str(<<"0", ".", "1", " ", "0",
                              ".", "1", " ", "0", ".", "1">>))))))
                @@ ("material" :>
                Obj(("@_name" :> Str(<<"r", "e", "d">>))))))
            @@ ("collision" :>
            Obj(("origin" :>
                Obj(("@_xyz" :> Str(<<"0", " ", "0", " ", "0", ".",
                          "1", "5">>))
                    @@ ("@_rpy" :> Str(<<"0", " ", "0", " ", "0">>))))
                @@ ("geometry" :>
                Obj(("box" :>
                    Obj(("@_size" :> Str(<<"0", ".", "0", "5", " ",
                              "0", ".", "0", "5", " ", "0",
                              ".", "3">>))))))))),
    Obj(("@_name" :> Str(<<"g", "r", "i", "p", "p", "e", "r">>))
            @@ ("inertial" :>
            Obj(("origin" :>
                Obj(("@_xyz" :> Str(<<"0", " ", "0", " ", "0", ".",
                          "0", "5">>))
                    @@ ("@_rpy" :> Str(<<"0", " ", "0", " ", "0">>))))
                @@ ("mass" :>
                Obj(("@_value" :> Str(<<"0", ".", "1">>))))
                @@ ("inertia" :>
                Obj(("@_ixx" :> Str(<<"0", ".", "0", "1">>))
                    @@ ("@_ixy" :> Str(<<"0">>))
                    @@ ("@_ixz" :> Str(<<"0">>))
                    @@ ("@_iyy" :> Str(<<"0", ".", "0", "1">>))
                    @@ ("@_iyz" :> Str(<<"0">>))
                    @@ ("@_izz" :> Str(<<"0", ".", "0", "1">>))))))
            @@ ("visual" :>
            Obj(("origin" :>
                Obj(("@_xyz" :> Str(<<"0", " ", "0", " ", "0", ".",
                          "0", "5">>))
                    @@ ("@_rpy" :> Str(<<"0", " ", "0", " ", "0">>))))
                @@ ("geometry" :>
                Obj(("box" :>
                    Obj(("@_size" :> Str(<<"0", ".", "0", "5", " ",
                              "0", ".", "1", " ", "0", ".",
                              "0", "5">>))))))
                @@ ("material" :>
                Obj(("@_name" :> Str(<<"t", "e", "x", "t", "u", "r",
                          "e", "d">>))))))
            @@ ("collision" :>
            Obj(("origin" :>
                Obj(("@_xyz" :> Str(<<"0", " ", "0", " ", "0", ".",
                          "0", "5">>))
                    @@ ("@_rpy" :> Str(<<"0", " ", "0", " ", "0">>))))
                @@ ("geometry" :>
                Obj(("box" :>
                    Obj(("@_size" :> Str(<<"0", ".", "0", "5", " ",
                              "0", ".", "1", " ", "0", ".",
                              "0", "5">>))))))))),
    Obj(("@_name" :> Str(<<"s", "l", "i", "d", "e", "r">>))
            @@ ("inertial" :>
            Obj(("origin" :>
                Obj(("@_xyz" :> Str(<<"0", " ", "0", " ", "0">>))
                    @@ ("@_rpy" :> Str(<<"0", " ", "0", " ", "0">>))))
                @@ ("mass" :>
                Obj(("@_value" :> Str(<<"0", ".", "2">>))))
                @@ ("inertia" :>
                Obj(("@_ixx" :> Str(<<"0", ".", "0", "2">>))
                    @@ ("@_ixy" :> Str(<<"0">>))
                    @@ ("@_ixz" :> Str(<<"0">>))
                    @@ ("@_iyy" :> Str(<<"0", ".", "0", "2">>))
                    @@ ("@_iyz" :> Str(<<"0">>))
                    @@ ("@_izz" :> Str(<<"0", ".", "0", "2">>))))))
            @@ ("visual" :>
            Obj(("origin" :>
                Obj(("@_xyz" :> Str(<<"0", " ", "0", " ", "0">>))
                    @@ ("@_rpy" :> Str(<<"0", " ", "0", " ", "0">>))))
                @@ ("geometry" :>
                Obj(("cylinder" :>
                    Obj(("@_radius" :> Str(<<"0", ".", "0", "2">>))
                        @@ ("@_length" :> Str(<<"0", ".", "2">>))))))
                @@ ("material" :>
                Obj(("@_name" :> Str(<<"g", "r", "a", "y">>))))))
            @@ ("collision" :>
            Obj(("origin" :>
                Obj(("@_xyz" :> Str(<<"0", " ", "0", " ", "0">>))
                    @@ ("@_rpy" :> Str(<<"0", " ", "0", " ", "0">>))))
                @@ ("geometry" :>
                Obj(("cylinder" :>
                    Obj(("@_radius" :> Str(<<"0", ".", "0", "2">>))
                        @@ ("@_length" :> Str(<<"0", ".", "2">>)))))))))>>)

SampleJoints ==
  Arr(<<
    Obj(("@_name" :> Str(<<"b", "a", "s", "e", "_", "t", "o",
                  "_", "r", "i", "g", "h", "t", "_", "w", "h",
                  "e", "e", "l">>))
            @@ ("@_type" :> Str(<<"c", "o", "n", "t", "i", "n", "u",
                  "o", "u", "s">>))
            @@ ("parent" :>
            Obj(("@_link" :> Str(<<"b", "a", "s", "e", "_", "l", "i",
                      "n", "k">>))))
            @@ ("child" :>
            Obj(("@_link" :> Str(<<"r", "i", "g", "h", "t", "_", "w",
                      "h", "e", "e", "l">>))))
            @@ ("origin" :>
            Obj(("@_xyz" :> Str(<<"0", " ", "-", "0", ".", "1", "5",
                      " ", "0">>))
                @@ ("@_rpy" :> Str(<<"0", " ", "0", " ", "0">>))))
            @@ ("axis" :>
            Obj(("@_xyz" :> Str(<<"0", " ", "1", " ", "0">>))))
            @@ ("dynamics" :>
            Obj(("@_damping" :> Str(<<"0", ".", "1">>))
                @@ ("@_friction" :> Str(<<"0", ".", "1">>))))),
    Obj(("@_name" :> Str(<<"b", "a", "s", "e", "_", "t", "o",
                  "_", "l", "e", "f", "t", "_", "w", "h", "e",
                  "e", "l">>))
            @@ ("@_type" :> Str(<<"c", "o", "n", "t", "i", "n", "u",
                  "o", "u", "s">>))
            @@ ("parent" :>
            Obj(("@_link" :> Str(<<"b", "a", "s", "e", "_", "l", "i",
                      "n", "k">>))))
            @@ ("child" :>
            Obj(("@_link" :> Str(<<"l", "e", "f", "t", "_", "w", "h",
                      "e", "e", "l">>))))
            @@ ("origin" :>
            Obj(("@_xyz" :> Str(<<"0", " ", "0", ".", "1", "5", " ",
                      "0">>))
                @@ ("@_rpy" :> Str(<<"0", " ", "0", " ", "0">>))))
            @@ ("axis" :>
            Obj(("@_xyz" :> Str(<<"0", " ", "1", " ", "0">>))))
            @@ ("dynamics" :>
            Obj(("@_damping" :> Str(<<"0", ".", "1">>))
                @@ ("@_friction" :> Str(<<"0", ".", "1">>))))
            @@ ("mimic" :>
            Obj(("@_joint" :> Str(<<"b", "a", "s", "e", "_", "t", "o",
                      "_", "r", "i", "g", "h", "t", "_", "w",
                      "h", "e", "e", "l">>))
                @@ ("@_multiplier" :> Str(<<"1">>))
                @@ ("@_offset" :> Str(<<"0">>))))),
    Obj(("@_name" :> Str(<<"b", "a", "s", "e", "_", "t", "o",
                  "_", "c", "a", "s", "t", "e", "r">>))
            @@ ("@_type" :> Str(<<"f", "i", "x", "e", "d">>))
            @@ ("parent" :>
            Obj(("@_link" :> Str(<<"b", "a", "s", "e", "_", "l", "i",
                      "n", "k">>))))
            @@ ("child" :>
            Obj(("@_link" :> Str(<<"c", "a", "s", "t", "e", "r">>))))
            @@ ("origin" :>
            Obj(("@_xyz" :> Str(<<"0", ".", "1", " ", "0", " ", "-",
                      "0", ".", "0", "5">>))
                @@ ("@_rpy" :> Str(<<"0", " ", "0", " ", "0">>))))),
    Obj(("@_name" :> Str(<<"b", "a", "s", "e", "_", "t", "o",
                  "_", "a", "r", "m">>))
            @@ ("@_type" :> Str(<<"r", "e", "v", "o", "l", "u", "t",
                  "e">>))
            @@ ("parent" :>
            Obj(("@_link" :> Str(<<"b", "a", "s", "e", "_", "l", "i",
                      "n", "k">>))))
            @@ ("child" :>
            Obj(("@_link" :> Str(<<"a", "r", "m">>))))
            @@ ("origin" :>
            Obj(("@_xyz" :> Str(<<"0", " ", "0", " ", "0", ".", "0",
                      "5">>))
                @@ ("@_rpy" :> Str(<<"0", " ", "0", " ", "0">>))))
            @@ ("axis" :>
            Obj(("@_xyz" :> Str(<<"0", " ", "1", " ", "0">>))))
            @@ ("limit" :>
            Obj(("@_lower" :> Str(<<"-", "1", ".", "5", "7">>))
                @@ ("@_upper" :> Str(<<"1", ".", "5", "7">>))
                @@ ("@_effort" :> Str(<<"1", "0", "0">>))
                @@ ("@_velocity" :> Str(<<"1", ".", "0">>))))
            @@ ("dynamics" :>
            Obj(("@_damping" :> Str(<<"0", ".", "5">>))
                @@ ("@_friction" :> Str(<<"0", ".", "5">>))))
            @@ ("calibration" :>
            Obj(("@_rising" :> Str(<<"0", ".", "1">>))
                @@ ("@_falling" :> Str(<<"0", ".", "0">>))))),
    Obj(("@_name" :> Str(<<"a", "r", "m", "_", "t", "o", "_",
                  "g", "r", "i", "p", "p", "e", "r">>))
            @@ ("@_type" :> Str(<<"r", "e", "v", "o", "l", "u", "t",
                  "e">>))
            @@ ("parent" :>
            Obj(("@_link" :> Str(<<"a", "r", "m">>))))
            @@ ("child" :>
            Obj(("@_link" :> Str(<<"g", "r", "i", "p", "p", "e",
                      "r">>))))
            @@ ("origin" :>
            Obj(("@_xyz" :> Str(<<"0", " ", "0", " ", "0", ".", "2",
                      "5">>))
                @@ ("@_rpy" :> Str(<<"0", " ", "0", " ", "0">>))))
            @@ ("axis" :>
            Obj(("@_xyz" :> Str(<<"1", " ", "0", " ", "0">>))))
            @@ ("limit" :>
            Obj(("@_lower" :> Str(<<"0">>))
                @@ ("@_upper" :> Str(<<"0", ".", "7", "8", "5">>))
                @@ ("@_effort" :> Str(<<"5", "0">>))
                @@ ("@_velocity" :> Str(<<"1", ".", "0">>))))),
    Obj(("@_name" :> Str(<<"b", "a", "s", "e", "_", "t", "o",
                  "_", "s", "l", "i", "d", "e", "r">>))
            @@ ("@_type" :> Str(<<"p", "r", "i", "s", "m", "a", "t",
                  "i", "c">>))
            @@ ("parent" :>
            Obj(("@_link" :> Str(<<"b", "a", "s", "e", "_", "l", "i",
                      "n", "k">>))))
            @@ ("child" :>
            Obj(("@_link" :> Str(<<"s", "l", "i", "d", "e", "r">>))))
            @@ ("origin" :>
            Obj(("@_xyz" :> Str(<<"0", ".", "1", " ", "0", " ", "0",
                      ".", "0", "5">>))
                @@ ("@_rpy" :> Str(<<"0", " ", "0", " ", "1", ".", "5",
                      "7">>))))
            @@ ("axis" :>
            Obj(("@_xyz" :> Str(<<"1", " ", "0", " ", "0">>))))
            @@ ("limit" :>
            Obj(("@_lower" :> Str(<<"0">>))
                @@ ("@_upper" :> Str(<<"0", ".", "2">>))
                @@ ("@_effort" :> Str(<<"8", "0">>))
                @@ ("@_velocity" :> Str(<<"0", ".", "5">>)))))>>)

SampleTransmissions ==
  Arr(<<
    Obj(("@_name" :> Str(<<"w", "h", "e", "e", "l", "_", "t",
                  "r", "a", "n", "s">>))
            @@ ("type" :>
            Str(<<"t", "r", "a", "n", "s", "m", "i", "s", "s", "i", "o", "n", "_", "i", "n", "t", "e", "r", "f", "a", "c", "e", "/", "S", "i", "m", "p", "l", "e", "T", "r", "a", "n", "s", "m", "i", "s", "s", "i", "o", "n">>))
            @@ ("joint" :>
            Obj(("@_name" :> Str(<<"b", "a", "s", "e", "_", "t", "o",
                      "_", "r", "i", "g", "h", "t", "_", "w",
                      "h", "e", "e", "l">>))
                @@ ("hardwareInterface" :>
                Str(<<"h", "a", "r", "d", "w", "a", "r", "e", "_", "i", "n", "t", "e", "r", "f", "a", "c", "e", "/", "V", "e", "l", "o", "c", "i", "t", "y", "J", "o", "i", "n", "t", "I", "n", "t", "e", "r", "f", "a", "c", "e">>))))
            @@ ("actuator" :>
            Obj(("@_name" :> Str(<<"w", "h", "e", "e", "l", "_", "m",
                      "o", "t", "o", "r">>))
                @@ ("mechanicalReduction" :>
                Num(10))
                @@ ("hardwareInterface" :>
                Str(<<"h", "a", "r", "d", "w", "a", "r", "e", "_", "i", "n", "t", "e", "r", "f", "a", "c", "e", "/", "V", "e", "l", "o", "c", "i", "t", "y", "J", "o", "i", "n", "t", "I", "n", "t", "e", "r", "f", "a", "c", "e">>))))),
    Obj(("@_name" :> Str(<<"a", "r", "m", "_", "t", "r", "a",
                  "n", "s">>))
            @@ ("type" :>
            Str(<<"t", "r", "a", "n", "s", "m", "i", "s", "s", "i", "o", "n", "_", "i", "n", "t", "e", "r", "f", "a", "c", "e", "/", "S", "i", "m", "p", "l", "e", "T", "r", "a", "n", "s", "m", "i", "s", "s", "i", "o", "n">>))
            @@ ("joint" :>
            Obj(("@_name" :> Str(<<"b", "a", "s", "e", "_", "t", "o",
                      "_", "a", "r", "m">>))
                @@ ("hardwareInterface" :>
                Str(<<"h", "a", "r", "d", "w", "a", "r", "e", "_", "i", "n", "t", "e", "r", "f", "a", "c", "e", "/", "P", "o", "s", "i", "t", "i", "o", "n", "J", "o", "i", "n", "t", "I", "n", "t", "e", "r", "f", "a", "c", "e">>))))
            @@ ("actuator" :>
            Obj(("@_name" :> Str(<<"a", "r", "m", "_", "m", "o", "t",
                      "o", "r">>))
                @@ ("mechanicalReduction" :>
                Num(50))
                @@ ("hardwareInterface" :>
                Str(<<"h", "a", "r", "d", "w", "a", "r", "e", "_", "i", "n", "t", "e", "r", "f", "a", "c", "e", "/", "P", "o", "s", "i", "t", "i", "o", "n", "J", "o", "i", "n", "t", "I", "n", "t", "e", "r", "f", "a", "c", "e">>)))))>>)

SampleRobot ==
  Obj(("@_name" :> Str(<<"s", "i", "m", "p", "l", "e", "_", "r", "o", "b", "o", "t">>))
      @@ ("material" :> SampleMaterials)
      @@ ("link" :> SampleLinks)
      @@ ("joint" :> SampleJoints)
      @@ ("transmission" :> SampleTransmissions))

(* the declaration is an element of its own, next to the root element *)
SampleDoc ==
  Obj(("?xml" :> Obj("@_version" :> Str(<<"1", ".", "0">>)))
      @@ ("robot" :> SampleRobot))

SampleDocs == {SampleDoc}

----------------------------------------------------------------------------
Init == parsed = Undef /\ outcome = [kind |-> "idle"]

Idle == outcome.kind = "idle"

parse(raw) ==
  /\ parsed' = raw
  /\ outcome' = processURDF(raw)

parseRobotDoc == Idle /\ \E raw \in RobotDocs : parse(raw)

parseLinkDoc == Idle /\ \E raw \in LinkDocs : parse(raw)

parseJointDoc == Idle /\ \E raw \in JointDocs : parse(raw)

parseGeometryDoc == Idle /\ \E raw \in GeometryDocs : parse(raw)

parseBodyDoc == Idle /\ \E raw \in BodyDocs : parse(raw)

parseTransmissionDoc == Idle /\ \E raw \in TransmissionDocs : parse(raw)

parseMimicDoc == Idle /\ \E raw \in MimicDocs : parse(raw)

parseOriginDoc == Idle /\ \E raw \in OriginDocs : parse(raw)

parseSampleDoc == Idle /\ \E raw \in SampleDocs : parse(raw)

Next ==
  \/ parseRobotDoc \/ parseLinkDoc \/ parseJointDoc \/ parseGeometryDoc
  \/ parseBodyDoc \/ parseTransmissionDoc \/ parseMimicDoc
  \/ parseOriginDoc \/ parseSampleDoc

Spec == Init /\ [][Next]_vars

----------------------------------------------------------------------------
(* The utilities of utils/parsing.ts called on their own: parsed holds the *)
(* call (the function and its arguments, an omitted argument being         *)
(* undefined), outcome its return value.                                   *)

MaxChars == 4

MaxTokens == 5

NumberChars == {"1", "5", ".", "-", "a", " "}

NumberStrings == {Str(q) : q \in SeqsUpTo(NumberChars, MaxChars)}

NumberDefaults == {Undef, Num(0), Num(7), MkNum(0 - 25, 1)}

VectorTokens == {<<"1">>, <<"a">>, <<".", "5">>, <<"2", "a">>}

RECURSIVE JoinTokens(_, _)
JoinTokens(tokens, sep) ==
  IF tokens = <<>> THEN <<>>
  ELSE IF Len(tokens) = 1 THEN tokens[1]
  ELSE tokens[1] \o sep \o JoinTokens(Tail(tokens), sep)

(* up to MaxTokens tokens with one blank between them, and with two blanks *)
(* between them and around them                                            *)
TokenStrings ==
  {Str(JoinTokens(q, <<" ">>)) : q \in SeqsUpTo(VectorTokens, MaxTokens)}
    \cup {Str(<<" ", " ">> \o JoinTokens(q, <<" ", " ">>) \o <<" ", " ">>) :
            q \in SeqsUpTo(VectorTokens, MaxTokens - 1)}

VectorDefaults ==
  {Undef, Vector3(Num(1), Num(1), Num(1)), Vector3(Num(7), Num(8), Num(9))}

RGBADefaults ==
  {Undef, Arr(<<Num(1), Num(1), Num(1), Num(1)>>),
   Arr(<<Num(5), Num(6), Num(7), Num(8)>>)}

Call(fn, value, defaultValue) ==
  [fn |-> fn, value |-> value, defaultValue |-> defaultValue]

NumberCalls ==
  \E v \in {Undef} \cup NumberStrings, d \in NumberDefaults :
    parsed = Call("parseNumber", v, d)

VectorCalls ==
  \E v \in {Undef} \cup TokenStrings, d \in VectorDefaults :
    parsed = Call("parseVector3", v, d)

RGBACalls ==
  \E v \in {Undef} \cup TokenStrings, d \in RGBADefaults :
    parsed = Call("parseRGBA", v, d)

(* what ensureArray is called with: absent, null, strings, numbers, a      *)
(* node, and arrays (empty, with undefined or array elements)              *)
ElementSingles ==
  {Null, EmptyStr, NameA, Num(0), Num(5), Obj("@_name" :> NameA)}

ElementArrays ==
  {Arr(q) : q \in SeqsUpTo(ElementSingles \cup {Undef, EmptyArr}, MaxNodes)}

Elements == {Undef} \cup ElementSingles \cup ElementArrays

ArrayCalls ==
  \E e \in Elements : parsed = [fn |-> "ensureArray", element |-> e]

(* what getAttribute is called with: no node, null, text and number in     *)
(* place of a node, arrays, and nodes with or without the attributes name  *)
(* and link and with a child element called name                           *)
AttributeNames == {"name", "link", "xyz"}

AttributeValues == {EmptyStr, NameA, Str(<<"0">>), Str(<<" ">>)}

AttributedNodes ==
  {Node(f) : f \in [{"@_name", "@_link", "name"} ->
                      {Undef} \cup AttributeValues]}

NodeShapes ==
  {Undef, Null, EmptyStr, TextElement, Num(0), Num(5), NaN, EmptyArr,
   Arr(<<Obj("@_name" :> NameA)>>)} \cup AttributedNodes

AttributeCalls ==
  \E o \in NodeShapes, a \in AttributeNames :
    parsed = [fn |-> "getAttribute", obj |-> o, attributeName |-> a]

Value(v) == [kind |-> "value", value |-> v]

(* how a call ends: with its value, or with the error it raised *)
Completion(result) ==
  IF result = TypeError THEN [kind |-> "raised", error |-> result]
  ELSE Value(result)

UtilInit ==
  /\ NumberCalls \/ VectorCalls \/ RGBACalls \/ ArrayCalls \/ AttributeCalls
  /\ outcome = [kind |-> "idle"]

callParseNumber ==
  /\ Idle /\ parsed.fn = "parseNumber"
  /\ outcome' = Value(parseNumber(parsed.value,
                                  Defaulted(parsed.defaultValue, DefaultNumber)))
  /\ UNCHANGED parsed

callParseVector3 ==
  /\ Idle /\ parsed.fn = "parseVector3"
  /\ outcome' = Value(parseVector3(parsed.value,
                                   Defaulted(parsed.defaultValue, ZeroVector)))
  /\ UNCHANGED parsed

callParseRGBA ==
  /\ Idle /\ parsed.fn = "parseRGBA"
  /\ outcome' = Value(parseRGBA(parsed.value,
                                Defaulted(parsed.defaultValue, DefaultRGBA)))
  /\ UNCHANGED parsed

callEnsureArray ==
  /\ Idle /\ parsed.fn = "ensureArray"
  /\ outcome' = [kind |-> "value",
                 value |-> ensureArray(parsed.element),
                 sameAsArgument |-> ensureArrayReturnsArgument(parsed.element)]
  /\ UNCHANGED parsed

callGetAttribute ==
  /\ Idle /\ parsed.fn = "getAttribute"
  /\ outcome' = Completion(getAttribute(parsed.obj, parsed.attributeName))
  /\ UNCHANGED parsed

UtilNext ==
  \/ callParseNumber
  \/ callParseVector3
  \/ callParseRGBA
  \/ callEnsureArray
  \/ callGetAttribute

UtilSpec == UtilInit /\ [][UtilNext]_vars

----------------------------------------------------------------------------
(* One URDFParser instance and the calls of parse on it: parsed holds the  *)
(* options the caller constructed it with, the instance, and the texts     *)
(* parse has been called with; outcome holds what each call returned or    *)
(* threw.  A text is the document it spells: an element tree (tag,         *)
(* attributes, child elements), or a text the XML layer cannot tokenize.   *)
(* The elements of the documents used here carry no text, and no element   *)
(* has an attribute and a child of the same name.                          *)

MaxCalls == 3

DefaultPrefix == "@_"

(* defaultXmlOptions, as far as the tree the XML layer returns goes *)
defaultXmlOptions ==
  ("ignoreAttributes" :> FALSE) @@ ("attributeNamePrefix" :> DefaultPrefix)

(* { ...defaults, ...given } with the defaults winning *)
spreadDefaultsLast(defaults, given) ==
  IF given = Undef THEN defaults ELSE defaults @@ given

(* { ...defaults, ...given }: the keys of given override those of defaults; *)
(* spreading undefined adds nothing                                        *)
spread(defaults, given) ==
  IF given = Undef THEN defaults ELSE given @@ defaults

(* new URDFParser(options) *)
URDFParserNew(options) ==
  [options |-> options,
   parser |-> spread(defaultXmlOptions, options.xmlParserOptions),
   builder |-> spread(defaultXmlOptions, options.xmlParserOptions)]

Element(tag, attrs, kids) == [tag |-> tag, attrs |-> attrs, kids |-> kids]

Document(root) == [tokenizes |-> TRUE, root |-> root]

Untokenizable == [tokenizes |-> FALSE]

(* what the XML layer raises *)
XMLError == [t |-> "XMLError"]

XMLErrorMessage == "XML layer error"

(* the keys the XML layer writes the attributes of element under *)
AttributeKeys(xmlOptions, element) ==
  IF xmlOptions["ignoreAttributes"] THEN {}
  ELSE {xmlOptions["attributeNamePrefix"] \o a : a \in DOMAIN element.attrs}

(* the attribute written under key *)
AttributeUnder(xmlOptions, element, key) ==
  element.attrs[CHOOSE a \in DOMAIN element.attrs :
                  xmlOptions["attributeNamePrefix"] \o a = key]

ChildTags(element) == {element.kids[i].tag : i \in 1..Len(element.kids)}

RECURSIVE Tagged(_, _)
Tagged(kids, tag) ==
  IF kids = <<>> THEN <<>>
  ELSE IF Head(kids).tag = tag THEN <<Head(kids)>> \o Tagged(Tail(kids), tag)
  ELSE Tagged(Tail(kids), tag)

(* the value the XML layer builds for an element: the empty string when it *)
(* has neither attributes nor children, else an object with one key per    *)
(* attribute and one per child tag, holding the child's value, or the      *)
(* array of the values of the children of that tag when there are several  *)
RECURSIVE BuildNode(_, _)
RECURSIVE BuildChildren(_, _)
BuildNode(xmlOptions, element) ==
  IF AttributeKeys(xmlOptions, element) = {} /\ element.kids = <<>>
  THEN EmptyStr
  ELSE Obj([k \in AttributeKeys(xmlOptions, element) \cup ChildTags(element) |->
              IF k \in ChildTags(element)
              THEN BuildChildren(xmlOptions, Tagged(element.kids, k))
              ELSE AttributeUnder(xmlOptions, element, k)])

BuildChildren(xmlOptions, kids) ==
  IF Len(kids) = 1 THEN BuildNode(xmlOptions, kids[1])
  ELSE Arr([i \in 1..Len(kids) |-> BuildNode(xmlOptions, kids[i])])

(* XMLParser.parse *)
XMLParse(xmlOptions, text) ==
  IF ~text.tokenizes THEN XMLError
  ELSE Obj(text.root.tag :> BuildNode(xmlOptions, text.root))

(* the rest of parse, which an error of the XML layer never reaches *)
afterXMLParse(layerResult) ==
  IF layerResult = XMLError THEN Thrown(XMLErrorMessage)
  ELSE processURDF(layerResult)

(* parse catching the error of the XML layer and going on with no tree *)
parseCallCatching(instance, text) ==
  [instance |-> instance,
   result |-> IF XMLParse(instance.parser, text) = XMLError
              THEN Returned(Obj(("name" :> EmptyStr) @@ ("links" :> EmptyArr)
                                @@ ("joints" :> EmptyArr)
                                @@ ("materials" :> EmptyArr)
                                @@ ("transmissions" :> EmptyArr)))
              ELSE processURDF(XMLParse(instance.parser, text))]

(* parse keeping its first result on the instance and returning it again *)
parseCallRemembering(instance, text) ==
  IF "last" \in DOMAIN instance
  THEN [instance |-> instance, result |-> instance.last]
  ELSE [instance |->
          [options |-> instance.options, parser |-> instance.parser,
           builder |-> instance.builder,
           last |-> afterXMLParse(XMLParse(instance.parser, text))],
        result |-> afterXMLParse(XMLParse(instance.parser, text))]

(* parse(text) on instance: the instance after the call, and what the call *)
(* returned or threw                                                       *)
parseCall(instance, text) ==
  [instance |-> instance,
   result |-> afterXMLParse(XMLParse(instance.parser, text))]

(* --- the options and the texts --- *)

CustomPrefix == "_custom_"

XmlParserOptions ==
  {Undef, NoFields, "attributeNamePrefix" :> DefaultPrefix,
   "attributeNamePrefix" :> CustomPrefix, "attributeNamePrefix" :> "",
   "attributeNamePrefix" :> "attr_", "ignoreAttributes" :> TRUE}

CallerOptions == {[xmlParserOptions |-> x] : x \in XmlParserOptions}

NoAttrs == NoFields

Leaf(tag, attrs) == Element(tag, attrs, <<>>)

LinkElement(name) == Leaf("link", "name" :> name)

JointElement(name) ==
  Element("joint", ("name" :> name) @@ ("type" :> Fixed),
          <<Leaf("parent", "link" :> NameA), Leaf("child", "link" :> NameB)>>)

MaterialElement ==
  Element("material", "name" :> NameA,
          <<Leaf("color", "rgba" :> Red)>>)

(* robots with a name; their links are named and their joints complete *)
NamedRobots ==
  {Leaf("robot", "name" :> NameA),
   Element("robot", "name" :> NameA, <<LinkElement(NameA)>>),
   Element("robot", "name" :> NameB,
           <<LinkElement(NameA), LinkElement(NameB), JointElement(NameA)>>),
   Element("robot", "name" :> NameB,
           <<MaterialElement, LinkElement(NameA), JointElement(NameA),
             JointElement(NameB)>>)}

OtherRoots ==
  {Leaf("robot", NoAttrs),
   Element("robot", NoAttrs, <<LinkElement(NameB)>>),
   Element("link", "name" :> NameA, <<>>)}

Texts == {Untokenizable} \cup {Document(r) : r \in NamedRobots \cup OtherRoots}

ParserInit ==
  /\ \E o \in CallerOptions :
       parsed = [options |-> o, instance |-> URDFParserNew(o), texts |-> <<>>]
  /\ outcome = [kind |-> "calls", results |-> <<>>]

parseText ==
  /\ Len(parsed.texts) < MaxCalls
  /\ \E text \in Texts :
       /\ parsed' = [options |-> parsed.options,
                     instance |-> parseCall(parsed.instance, text).instance,
                     texts |-> Append(parsed.texts, text)]
       /\ outcome' = [kind |-> "calls",
                      results |-> Append(outcome.results,
                                         parseCall(parsed.instance, text).result)]

ParserNext == parseText

ParserSpec == ParserInit /\ [][ParserNext]_vars

----------------------------------------------------------------------------
(* Properties                                                              *)

Called == outcome.kind # "idle"

ReturnedRobot == outcome.kind = "returned"

RawRobot == Get(parsed, "robot")

CollectionKeys == {"links", "joints", "materials", "transmissions"}

(* C1: whatever the shape of the link, joint, material and transmission    *)
(* entries of the robot node (absent, one node, an array of nodes), the    *)
(* Robot that parse returns has links, joints, materials and transmissions *)
(* each present and each an array.                                         *)
C1_CollectionsAreSequences ==
  ReturnedRobot =>
    \A k \in CollectionKeys :
      Has(outcome.robot, k) /\ outcome.robot.f[k].t = "array"

(* a robot whose link and transmission entries are single bare nodes and   *)
(* whose joint entry is absent has been parsed                             *)
C1_Witness ==
  /\ ReturnedRobot
  /\ Get(RawRobot, "link") = SimpleLink
  /\ Get(RawRobot, "transmission") = SimpleTransmission
  /\ ~Has(RawRobot, "joint")
  /\ Get(RawRobot, "material").t = "array"
  /\ Len(outcome.robot.f["links"].a) = 1

(* C2: a raw tree without a top-level robot entry makes parse throw        *)
(* 'Invalid URDF: Missing robot element' and return no Robot.              *)
C2_MissingRobotThrows ==
  (Called /\ ~Has(parsed, "robot")) =>
    outcome = Thrown("Invalid URDF: Missing robot element")

C2_Witness ==
  /\ outcome.kind = "thrown"
  /\ Has(parsed, "not_a_robot")
  /\ ~Has(parsed, "robot")

(* C3: whenever the raw tree has a top-level robot entry, whatever that    *)
(* element has or lacks, parse returns a Robot and throws nothing.         *)
C3_RobotElementNeverThrows ==
  (Called /\ Has(parsed, "robot")) => ReturnedRobot

(* the nodes of a child entry of the raw tree, in document order *)
NodesOf(entry) ==
  IF entry.t = "undefined" THEN <<>>
  ELSE IF entry.t = "array" THEN entry.a ELSE <<entry>>

(* node carries attribute a / carries it with a non-empty value *)
HasAttr(node, a) == Has(node, "@_" \o a)

Attr(node, a) == node.f["@_" \o a]

HasNonEmptyAttr(node, a) == HasAttr(node, a) /\ Attr(node, a) # EmptyStr

RobotIsNode == Called /\ RawRobot.t = "object"

LinkNodesIn == NodesOf(Get(RawRobot, "link"))

JointNodesIn == NodesOf(Get(RawRobot, "joint"))

MaterialNodesIn == NodesOf(Get(RawRobot, "material"))

TransmissionNodesIn == NodesOf(Get(RawRobot, "transmission"))

Out(k) == outcome.robot.f[k].a

NamedLink(node) == HasNonEmptyAttr(node, "name")

(* links is the order-preserving image of the named link nodes *)
LinksFollow(nodes) ==
  /\ Len(Out("links")) = Len(nodes)
  /\ \A i \in 1..Len(nodes) :
       /\ Out("links")[i].f["name"] = Attr(nodes[i], "name")
       /\ Out("links")[i].f["name"] # EmptyStr

(* C4: the output links are exactly the link nodes with a non-empty name   *)
(* attribute, one Link per such node, with that name, in order; the        *)
(* unnamed ones are dropped and nothing is thrown.                         *)
C4_LinksAreTheNamedLinkNodes ==
  RobotIsNode => ReturnedRobot /\ LinksFollow(SelectSeq(LinkNodesIn, NamedLink))

(* a named link after an unnamed one: the first is dropped, the second kept *)
C4_Witness ==
  /\ ReturnedRobot
  /\ Len(LinkNodesIn) = 2
  /\ HasAttr(LinkNodesIn[1], "name") /\ ~NamedLink(LinkNodesIn[1])
  /\ NamedLink(LinkNodesIn[2])
  /\ Len(Out("links")) = 1

(* all four of name, type, parent link and child link are there *)
PresentJoint(node) ==
  /\ HasAttr(node, "name") /\ HasAttr(node, "type")
  /\ HasAttr(Get(node, "parent"), "link")
  /\ HasAttr(Get(node, "child"), "link")

(* ... and none of them is the empty string *)
CompleteJoint(node) ==
  /\ HasNonEmptyAttr(node, "name") /\ HasNonEmptyAttr(node, "type")
  /\ HasNonEmptyAttr(Get(node, "parent"), "link")
  /\ HasNonEmptyAttr(Get(node, "child"), "link")

JointsFollow(nodes) ==
  /\ Len(Out("joints")) = Len(nodes)
  /\ \A i \in 1..Len(nodes) :
       LET joint == Out("joints")[i].f
       IN  /\ joint["name"] = Attr(nodes[i], "name")
           /\ joint["type"] = Attr(nodes[i], "type")
           /\ joint["parent"] = Obj("link" :> Attr(Get(nodes[i], "parent"), "link"))
           /\ joint["child"] = Obj("link" :> Attr(Get(nodes[i], "child"), "link"))
           /\ EmptyStr \notin {joint["name"], joint["type"],
                               joint["parent"].f["link"],
                               joint["child"].f["link"]}

(* C5 as stated: a joint node is in the output joints if and only if it    *)
(* has the name and type attributes and parent and child elements with a   *)
(* link attribute; every output joint has these four non-empty and equal   *)
(* to the input's.                                                         *)
C5_JointsAreThePresentJointNodes ==
  RobotIsNode =>
    ReturnedRobot /\ JointsFollow(SelectSeq(JointNodesIn, PresentJoint))

(* C5 amended: a joint node is in the output joints if and only if its     *)
(* name and type attributes and the link attributes of its parent and      *)
(* child elements are all there and non-empty (an empty attribute value    *)
(* counts as missing); the others are dropped without an error and without *)
(* affecting the remaining joints.                                         *)
C5_JointsAreTheCompleteJointNodes ==
  RobotIsNode =>
    ReturnedRobot /\ JointsFollow(SelectSeq(JointNodesIn, CompleteJoint))

(* of three joints the middle one has an empty parent link and is dropped *)
C5_Witness ==
  /\ ReturnedRobot
  /\ Len(JointNodesIn) >= 2
  /\ CompleteJoint(JointNodesIn[1])
  /\ PresentJoint(JointNodesIn[2]) /\ ~CompleteJoint(JointNodesIn[2])
  /\ Len(Out("joints")) = 1

(* C6: the four output sequences follow document order: links and joints   *)
(* are the valid nodes in order, and materials[i] and transmissions[i] are *)
(* the conversions of the i-th material and transmission node, none        *)
(* dropped, duplicated or reordered.                                       *)
C6_DocumentOrder ==
  RobotIsNode =>
    /\ ReturnedRobot
    /\ LinksFollow(SelectSeq(LinkNodesIn, NamedLink))
    /\ JointsFollow(SelectSeq(JointNodesIn, CompleteJoint))
    /\ Len(Out("materials")) = Len(MaterialNodesIn)
    /\ \A i \in 1..Len(MaterialNodesIn) :
         Has(Out("materials")[i], "name")
           <=> HasNonEmptyAttr(MaterialNodesIn[i], "name")
    /\ Len(Out("transmissions")) = Len(TransmissionNodesIn)
    /\ \A i \in 1..Len(TransmissionNodesIn) :
         Has(Out("transmissions")[i], "name")
           <=> HasNonEmptyAttr(TransmissionNodesIn[i], "name")

JointTypes ==
  {Str(<<"r", "e", "v", "o", "l", "u", "t", "e">>),
   Str(<<"c", "o", "n", "t", "i", "n", "u", "o", "u", "s">>),
   Str(<<"p", "r", "i", "s", "m", "a", "t", "i", "c">>),
   Str(<<"f", "i", "x", "e", "d">>),
   Str(<<"f", "l", "o", "a", "t", "i", "n", "g">>),
   Str(<<"p", "l", "a", "n", "a", "r">>)}

(* C7: every Joint of the returned Robot has one of the six joint types.   *)
C7_JointTypeIsOneOfSix ==
  ReturnedRobot =>
    \A i \in 1..Len(Out("joints")) : Out("joints")[i].f["type"] \in JointTypes

EmittedJointNodes == SelectSeq(JointNodesIn, CompleteJoint)

(* C8: an emitted joint whose axis element is in the source has an axis    *)
(* field, with xyz {1,0,0} when that element has no xyz attribute; a joint *)
(* without an axis element has no axis field.                              *)
C8_AxisPresentAndDefaulted ==
  (ReturnedRobot /\ Len(Out("joints")) = Len(EmittedJointNodes)) =>
    \A i \in 1..Len(EmittedJointNodes) :
      LET node == EmittedJointNodes[i]
          joint == Out("joints")[i]
      IN  /\ Has(node, "axis") <=> Has(joint, "axis")
          /\ (Has(node, "axis") /\ ~HasAttr(Get(node, "axis"), "xyz")) =>
               Get(Get(joint, "axis"), "xyz") = Vector3(Num(1), Num(0), Num(0))

(* --- the geometry of the first visual of the first link --- *)

GeometryIn == Get(Get(Get(RawRobot, "link"), "visual"), "geometry")

OneVisualParsed ==
  /\ ReturnedRobot
  /\ Has(Get(Get(RawRobot, "link"), "visual"), "geometry")
  /\ Len(Out("links")) = 1
  /\ Len(Out("links")[1].f["visuals"].a) = 1

VisualOut == Out("links")[1].f["visuals"].a[1]

MeshIn == Get(GeometryIn, "mesh")

MeshOut == Get(Get(VisualOut, "geometry"), "mesh")

(* whitespace-separated tokens of a string, by position *)
TokenStarts(s) ==
  {i \in 1..Len(s) : s[i] \notin Whitespace /\ (i = 1 \/ s[i - 1] \in Whitespace)}

TokenCount(s) == Cardinality(TokenStarts(s))

Token(s, n) ==
  LET from == CHOOSE i \in TokenStarts(s) :
                Cardinality({j \in TokenStarts(s) : j < i}) = n - 1
      to == CHOOSE j \in from..Len(s) :
              /\ \A k \in from..j : s[k] \notin Whitespace
              /\ (j = Len(s) \/ s[j + 1] \in Whitespace)
  IN  SubSeq(s, from, to)

(* the number a token starts with: its leading digits read in base ten *)
LeadingDigits(tok) ==
  CHOOSE k \in 0..Len(tok) :
    /\ \A i \in 1..k : tok[i] \in Digits
    /\ (k = Len(tok) \/ tok[k + 1] \notin Digits)

IsNumericToken(tok) == LeadingDigits(tok) > 0

RECURSIVE Pow10(_)
Pow10(n) == IF n = 0 THEN 1 ELSE 10 * Pow10(n - 1)

RECURSIVE SumDigits(_, _)
SumDigits(tok, k) ==
  IF k = 0 THEN 0
  ELSE SumDigits(tok, k - 1)
         + DigitVal(tok[k]) * Pow10(LeadingDigits(tok) - k)

TokenValue(tok) == Num(SumDigits(tok, LeadingDigits(tok)))

Ones == Vector3(Num(1), Num(1), Num(1))

FullyParses(s) ==
  TokenCount(s) = 3 /\ \A n \in 1..3 : IsNumericToken(Token(s, n))

ParsedVector(s) ==
  Vector3(TokenValue(Token(s, 1)), TokenValue(Token(s, 2)),
          TokenValue(Token(s, 3)))

ScaleComponent(s, n) ==
  IF IsNumericToken(Token(s, n)) THEN TokenValue(Token(s, n)) ELSE Num(1)

ShapeKeys == {"box", "cylinder", "sphere", "mesh"}

(* C10: the geometry of a visual has each of box, cylinder, sphere, mesh   *)
(* if and only if that element is in the source geometry node; a geometry  *)
(* element with none of them gives an empty record.                        *)
C10_ShapesFollowElements ==
  OneVisualParsed =>
    /\ Has(VisualOut, "geometry")
    /\ \A k \in ShapeKeys :
         Has(Get(VisualOut, "geometry"), k) <=> Has(GeometryIn, k)

(* --- the one link of a document that has a single named link --- *)

LinkIn == Get(RawRobot, "link")

OneLinkParsed ==
  /\ ReturnedRobot
  /\ LinkIn.t = "object" /\ NamedLink(LinkIn)
  /\ Len(Out("links")) = 1

LinkOut == Out("links")[1]

VisualNodesIn == NodesOf(Get(LinkIn, "visual"))

VisualsOut == LinkOut.f["visuals"].a

CollisionNodesIn == NodesOf(Get(LinkIn, "collision"))

CollisionsOut == LinkOut.f["collisions"].a

(* a material element that carries a name and nothing else *)
NameOnly(node) ==
  node.t = "object" /\ DOMAIN node.f = {"@_name"} /\ node.f["@_name"] # EmptyStr

(* C11: a visual whose material element carries only a name yields a       *)
(* Material with only that name, whatever the root materials are; the      *)
(* links of the output are the same for every document with the same link  *)
(* entry, and the root materials the same for every document with the same *)
(* root material entry (the inline materials do not reach them).           *)
C11_InlineMaterialsUnresolved ==
  (OneLinkParsed /\ parsed \in VisualDocs) =>
    /\ \A i \in 1..Len(VisualsOut) :
         (Len(VisualsOut) = Len(VisualNodesIn)
            /\ NameOnly(Get(VisualNodesIn[i], "material")))
           => Get(VisualsOut[i], "material")
                = Obj("name" :> Attr(Get(VisualNodesIn[i], "material"), "name"))
    /\ \A other \in VisualDocs :
         /\ Get(Get(other, "robot"), "link") = LinkIn
              => processURDF(other).robot.f["links"] = outcome.robot.f["links"]
         /\ Get(Get(other, "robot"), "material") = Get(RawRobot, "material")
              => processURDF(other).robot.f["materials"]
                   = outcome.robot.f["materials"]

(* a visual naming material "a" next to a root material "a" that has a     *)
(* color: the visual's Material has the name only, the root one the color  *)
C11_Witness ==
  /\ OneLinkParsed
  /\ Get(RawRobot, "material") = ColoredMaterial(NameA)
  /\ Len(VisualNodesIn) = 1
  /\ Get(VisualNodesIn[1], "material") = Obj("@_name" :> NameA)
  /\ Len(VisualsOut) = 1
  /\ Get(VisualsOut[1], "material") = Obj("name" :> NameA)
  /\ Len(Out("materials")) = 1
  /\ Has(Out("materials")[1], "color")

(* --- decimal numerals, read by position --- *)

SignLen(t) == IF t # <<>> /\ t[1] \in {"-", "+"} THEN 1 ELSE 0

Unsign(t) == SubSeq(t, SignLen(t) + 1, Len(t))

DotCount(b) == Cardinality({i \in 1..Len(b) : b[i] = "."})

DigitCount(b) == Cardinality({i \in 1..Len(b) : b[i] \in Digits})

(* [+-] digits [. digits] with at least one digit *)
IsNumeral(t) ==
  /\ \A i \in 1..Len(Unsign(t)) : Unsign(t)[i] \in Digits \cup {"."}
  /\ DotCount(Unsign(t)) <= 1
  /\ DigitCount(Unsign(t)) >= 1

FractionDigits(b) ==
  IF DotCount(b) = 0 THEN 0
  ELSE Len(b) - (CHOOSE i \in 1..Len(b) : b[i] = ".")

RECURSIVE Weighted(_, _)
Weighted(ds, k) ==
  IF k = 0 THEN 0
  ELSE Weighted(ds, k - 1) + DigitVal(ds[k]) * Pow10(Len(ds) - k)

IsDigit(c) == c \in Digits

Magnitude(b) == Weighted(SelectSeq(b, IsDigit), DigitCount(b))

(* the number a numeral denotes *)
NumeralValue(t) ==
  MkNum(IF t[1] = "-" THEN 0 - Magnitude(Unsign(t)) ELSE Magnitude(Unsign(t)),
        FractionDigits(Unsign(t)))

(* --- transmissions --- *)

(* a text-bearing element as the XML layer hands it over: the text itself  *)
(* (a non-empty string, or a number), or an object holding it under #text  *)
TextIn(shape) == IF shape.t = "object" THEN Get(shape, TextKey) ELSE shape

HasText(shape) ==
  \/ TextIn(shape).t = "number"
  \/ TextIn(shape).t = "string" /\ TextIn(shape) # EmptyStr

TransmissionsAligned ==
  /\ RobotIsNode /\ ReturnedRobot
  /\ Len(Out("transmissions")) = Len(TransmissionNodesIn)

(* C12: a transmission whose type element has text has that text, as a     *)
(* string, as its output type, whichever of the three raw shapes (object   *)
(* with #text, bare string, bare number) the element has.                  *)
C12_TransmissionTypeIsTheText ==
  TransmissionsAligned =>
    \A i \in 1..Len(TransmissionNodesIn) :
      HasText(Get(TransmissionNodesIn[i], "type")) =>
        Get(Out("transmissions")[i], "type")
          = Str(ToChars(TextIn(Get(TransmissionNodesIn[i], "type"))))

ReductionIn(node) == Get(Get(node, "actuator"), "mechanicalReduction")

IsNumericText(text) ==
  text.t = "number" \/ (text.t = "string" /\ IsNumeral(text.s))

TextNumber(text) == IF text.t = "number" THEN text ELSE NumeralValue(text.s)

(* C13: an actuator whose mechanicalReduction element has numeric text n   *)
(* has mechanicalReduction n in the output, for every n and each raw shape *)
(* (so the field is never omitted for an element with numeric text), and   *)
(* has no such field when the element is absent.                           *)
C13_MechanicalReductionIsTheNumber ==
  TransmissionsAligned =>
    \A i \in 1..Len(TransmissionNodesIn) :
      Get(TransmissionNodesIn[i], "actuator").t = "object" =>
        /\ IsNumericText(TextIn(ReductionIn(TransmissionNodesIn[i]))) =>
             Get(Get(Out("transmissions")[i], "actuator"), "mechanicalReduction")
               = TextNumber(TextIn(ReductionIn(TransmissionNodesIn[i])))
        /\ ~Has(Get(TransmissionNodesIn[i], "actuator"), "mechanicalReduction")
             => ~Has(Get(Out("transmissions")[i], "actuator"),
                     "mechanicalReduction")

(* C14: a robot element without a name attribute parses to a Robot named   *)
(* ""; with the attribute, the Robot has the attribute's value as name.    *)
C14_RobotNameOrEmpty ==
  (Called /\ Has(parsed, "robot")) =>
    /\ ReturnedRobot
    /\ outcome.robot.f["name"]
         = IF HasAttr(RawRobot, "name") THEN Attr(RawRobot, "name")
           ELSE EmptyStr

(* --- the bodies of the links --- *)

NamedLinksIn == SelectSeq(LinkNodesIn, NamedLink)

LinksAligned ==
  /\ RobotIsNode /\ ReturnedRobot
  /\ Len(Out("links")) = Len(NamedLinksIn)

(* out is an array with one entry per node, entry i carrying the name of   *)
(* node i                                                                  *)
EntriesFollow(out, nodes) ==
  /\ out.t = "array"
  /\ Len(out.a) = Len(nodes)
  /\ \A j \in 1..Len(nodes) :
       /\ out.a[j].t = "object"
       /\ Get(out.a[j], "name")
            = IF HasNonEmptyAttr(nodes[j], "name") THEN Attr(nodes[j], "name")
              ELSE Undef

(* C15: every output Link has visuals and collisions, each an array with   *)
(* one entry per visual (collision) element of the link node, in order:    *)
(* empty without such an element, and the same whether the elements came   *)
(* as one node or as an array.                                             *)
C15_VisualsAndCollisionsFollow ==
  LinksAligned =>
    \A i \in 1..Len(NamedLinksIn) :
      /\ EntriesFollow(Get(Out("links")[i], "visuals"),
                       NodesOf(Get(NamedLinksIn[i], "visual")))
      /\ EntriesFollow(Get(Out("links")[i], "collisions"),
                       NodesOf(Get(NamedLinksIn[i], "collision")))

(* out has each of the keys if and only if node has it *)
FieldsFollow(out, node, keys) == \A k \in keys : Has(out, k) <=> Has(node, k)

(* C16: in the inertial, the visuals and the collisions of a link, each of *)
(* origin, mass, inertia, geometry and material is in the output if and    *)
(* only if that child element is in the source node, field by field.       *)
C16_SubFieldsFollowElements ==
  OneLinkParsed =>
    /\ Has(LinkOut, "inertial") =>
         FieldsFollow(Get(LinkOut, "inertial"), Get(LinkIn, "inertial"),
                      {"origin", "mass", "inertia"})
    /\ Len(VisualsOut) = Len(VisualNodesIn) =>
         \A j \in 1..Len(VisualNodesIn) :
           FieldsFollow(VisualsOut[j], VisualNodesIn[j],
                        {"origin", "geometry", "material"})
    /\ Len(CollisionsOut) = Len(CollisionNodesIn) =>
         \A j \in 1..Len(CollisionNodesIn) :
           FieldsFollow(CollisionsOut[j], CollisionNodesIn[j],
                        {"origin", "geometry"})

(* --- the utilities called on their own --- *)

(* the lengths of the prefixes of t that are numerals *)
NumeralPrefixes(t) == {k \in 1..Len(t) : IsNumeral(SubSeq(t, 1, k))}

StartsWithNumeral(t) == NumeralPrefixes(t) # {}

LongestNumeral(t) ==
  SubSeq(t, 1, CHOOSE k \in NumeralPrefixes(t) :
                 \A j \in NumeralPrefixes(t) : j <= k)

LeadingBlanks(s) ==
  CHOOSE k \in 0..Len(s) :
    /\ \A i \in 1..k : s[i] \in Whitespace
    /\ (k = Len(s) \/ s[k + 1] \notin Whitespace)

Unblank(s) == SubSeq(s, LeadingBlanks(s) + 1, Len(s))

(* s is one numeral, possibly with blanks around it *)
WholeNumeral(s) == TokenCount(s) = 1 /\ IsNumeral(Token(s, 1))

Returns(fn) == outcome.kind = "value" /\ parsed.fn = fn

Absent == parsed.value = Undef

(* the default in force: the one given, or the function's own *)
Fallback(own) ==
  IF parsed.defaultValue = Undef THEN own ELSE parsed.defaultValue

Component(tok, d) ==
  IF StartsWithNumeral(tok) THEN NumeralValue(LongestNumeral(tok)) ELSE d

(* C18: for an input of exactly three tokens, each component of            *)
(* parseVector3(raw, D) is the number of its own token, or D's component   *)
(* when that token is not numeric (does not begin with a numeral),         *)
(* independently of the other two; D is never returned whole on account of *)
(* one such token.                                                         *)
C18_ComponentsIndependent ==
  (Returns("parseVector3") /\ ~Absent /\ TokenCount(parsed.value.s) = 3) =>
    outcome.value =
      Vector3(Component(Token(parsed.value.s, 1), Fallback(ZeroVector).f["x"]),
              Component(Token(parsed.value.s, 2), Fallback(ZeroVector).f["y"]),
              Component(Token(parsed.value.s, 3), Fallback(ZeroVector).f["z"]))

(* "1 a .5" with default {7,8,9} has been parsed to {1, 8, 0.5} *)
C18_Witness ==
  /\ Returns("parseVector3")
  /\ parsed.value = Str(<<"1", " ", "a", " ", ".", "5">>)
  /\ parsed.defaultValue = Vector3(Num(7), Num(8), Num(9))
  /\ outcome.value = Vector3(Num(1), Num(8), MkNum(5, 1))

(* C19: parseVector3(raw, D) is D, whole, when raw is absent or does not   *)
(* split into exactly three tokens.                                        *)
C19_WholeDefaultOnWrongCount ==
  (Returns("parseVector3") /\ (Absent \/ TokenCount(parsed.value.s) # 3)) =>
    outcome.value = Fallback(ZeroVector)

(* four numeric tokens with default {7,8,9} have been parsed to {7,8,9} *)
C19_Witness ==
  /\ Returns("parseVector3")
  /\ ~Absent
  /\ TokenCount(parsed.value.s) = 4
  /\ \A n \in 1..4 : IsNumeral(Token(parsed.value.s, n))
  /\ parsed.defaultValue = Vector3(Num(7), Num(8), Num(9))
  /\ outcome.value = Vector3(Num(7), Num(8), Num(9))

(* C20: parseRGBA(raw, D) is D, whole, when raw is absent or does not      *)
(* split into exactly four tokens; otherwise it is the 4-tuple whose i-th  *)
(* entry is the number of token i, or D[i] when that token is not numeric  *)
(* (does not begin with a numeral); D is [0,0,0,1] when no default is      *)
(* given.                                                                  *)
C20_RGBAFollowsTheVectorContract ==
  Returns("parseRGBA") =>
    outcome.value =
      IF Absent \/ TokenCount(parsed.value.s) # 4
      THEN Fallback(Arr(<<Num(0), Num(0), Num(0), Num(1)>>))
      ELSE Arr([i \in 1..4 |->
                  Component(Token(parsed.value.s, i),
                            Fallback(Arr(<<Num(0), Num(0), Num(0), Num(1)>>)).a[i])])

(* "a 1 a a" without a default has been parsed to [0, 1, 0, 1] *)
C20_Witness ==
  /\ Returns("parseRGBA")
  /\ parsed.value = Str(<<"a", " ", "1", " ", "a", " ", "a">>)
  /\ parsed.defaultValue = Undef
  /\ outcome.value = Arr(<<Num(0), Num(1), Num(0), Num(1)>>)

----------------------------------------------------------------------------
(* ensureArray and getAttribute                                            *)

(* C21: ensureArray gives the empty array for undefined, the argument       *)
(* itself (same elements in the same order, and the same array, not a      *)
(* copy) for an array, and the one-element array [x] for any other value   *)
(* x; so applying ensureArray to its result gives that result again.       *)
C21_EnsureArrayNormalizes ==
  Returns("ensureArray") =>
    /\ parsed.element = Undef => outcome.value = EmptyArr
    /\ parsed.element.t = "array" =>
         outcome.value = parsed.element /\ outcome.sameAsArgument
    /\ parsed.element.t \notin {"undefined", "array"} =>
         outcome.value = Arr(<<parsed.element>>)
    /\ ensureArray(outcome.value) = outcome.value

(* an array of two elements has been given and returned as it is *)
C21_Witness ==
  /\ Returns("ensureArray")
  /\ parsed.element.t = "array"
  /\ Len(parsed.element.a) = 2
  /\ outcome.value = parsed.element
  /\ outcome.sameAsArgument

CalledGetAttribute == Called /\ parsed.fn = "getAttribute"

(* C22: getAttribute(node, a) never raises, whatever node and a are, and    *)
(* its value is undefined when node is undefined or null and when node     *)
(* has no attribute a, other attributes or not.                            *)
C22_GetAttributeNeverRaises ==
  CalledGetAttribute =>
    /\ outcome.kind = "value"
    /\ (parsed.obj \in {Undef, Null}
          \/ ~HasAttr(parsed.obj, parsed.attributeName)) =>
         outcome.value = Undef

(* getAttribute(null, a) has returned undefined *)
C22_Witness ==
  /\ CalledGetAttribute
  /\ parsed.obj = Null
  /\ outcome = Value(Undef)

(* C30: for a node carrying attribute a with string value v, the empty      *)
(* string included, getAttribute(node, a) is v; it is undefined only when  *)
(* the node is undefined or null or does not carry the attribute.          *)
C30_GetAttributeReturnsTheValue ==
  (CalledGetAttribute /\ outcome.kind = "value") =>
    /\ HasAttr(parsed.obj, parsed.attributeName) =>
         outcome.value = Attr(parsed.obj, parsed.attributeName)
    /\ outcome.value = Undef =>
         (parsed.obj \in {Undef, Null}
            \/ ~HasAttr(parsed.obj, parsed.attributeName))

----------------------------------------------------------------------------
(* mimic and origin                                                        *)

(* the number an attribute gives: that of the numeral its value begins     *)
(* with, or d when the attribute is absent or does not begin with one      *)
AttrNumber(node, a, d) ==
  IF HasAttr(node, a) THEN Component(Unblank(Attr(node, a).s), d) ELSE d

MimicOf(node) ==
  Obj(("joint" :> Attr(Get(node, "mimic"), "joint"))
      @@ ("multiplier" :> AttrNumber(Get(node, "mimic"), "multiplier", Num(1)))
      @@ ("offset" :> AttrNumber(Get(node, "mimic"), "offset", Num(0))))

(* C27 as stated: every complete joint is emitted; when its mimic element   *)
(* has a joint attribute the output mimic has that joint name, multiplier  *)
(* the multiplier attribute or 1 when absent or non-numeric, offset the    *)
(* offset attribute or 0 when absent or non-numeric; when the mimic        *)
(* element has no joint attribute the mimic field is omitted.              *)
C27_MimicFollowsJointAttribute ==
  ReturnedRobot =>
    /\ Len(Out("joints")) = Len(EmittedJointNodes)
    /\ \A i \in 1..Len(EmittedJointNodes) :
         Has(EmittedJointNodes[i], "mimic") =>
           IF HasAttr(Get(EmittedJointNodes[i], "mimic"), "joint")
           THEN Get(Out("joints")[i], "mimic") = MimicOf(EmittedJointNodes[i])
           ELSE ~Has(Out("joints")[i], "mimic")

(* C27: every complete joint is emitted; when its mimic element has a       *)
(* non-empty joint attribute the output mimic has that joint name,         *)
(* multiplier the number the multiplier attribute begins with, or 1 when   *)
(* it is absent or does not begin with a number, and offset likewise with  *)
(* 0; when the mimic element has no joint attribute, or an empty one, the  *)
(* mimic field is omitted.                                                 *)
C27_MimicFollowsNonEmptyJointAttribute ==
  ReturnedRobot =>
    /\ Len(Out("joints")) = Len(EmittedJointNodes)
    /\ \A i \in 1..Len(EmittedJointNodes) :
         Has(EmittedJointNodes[i], "mimic") =>
           IF HasNonEmptyAttr(Get(EmittedJointNodes[i], "mimic"), "joint")
           THEN Get(Out("joints")[i], "mimic") = MimicOf(EmittedJointNodes[i])
           ELSE ~Has(Out("joints")[i], "mimic")

(* a joint whose mimic element names joint b, with a non-numeric           *)
(* multiplier and offset ".5", has been emitted with mimic {b, 1, 0.5}     *)
C27_Witness ==
  /\ ReturnedRobot
  /\ Len(EmittedJointNodes) = 1
  /\ Get(EmittedJointNodes[1], "mimic") =
       Obj(("@_joint" :> NameB) @@ ("@_multiplier" :> Str(<<"a">>))
           @@ ("@_offset" :> Str(<<".", "5">>)))
  /\ Len(Out("joints")) = 1
  /\ Get(Out("joints")[1], "mimic") =
       Obj(("joint" :> NameB) @@ ("multiplier" :> Num(1))
           @@ ("offset" :> MkNum(5, 1)))

(* out has an origin field when node has an origin element, with xyz (rpy) *)
(* exactly when that element has the xyz (rpy) attribute                   *)
OriginFollows(out, node) ==
  Has(node, "origin") =>
    /\ Has(out, "origin")
    /\ Has(Get(out, "origin"), "xyz") <=> HasAttr(Get(node, "origin"), "xyz")
    /\ Has(Get(out, "origin"), "rpy") <=> HasAttr(Get(node, "origin"), "rpy")

(* C28: in inertial, visual, collision and joint, an origin element that is *)
(* present gives an origin field, whose xyz (rpy) is set if and only if    *)
(* the element has the xyz (rpy) attribute, so that an origin element with *)
(* neither gives the empty record; the axis of a joint without xyz is      *)
(* defaulted instead.                                                      *)
C28_OriginNeverDefaulted ==
  /\ OneLinkParsed =>
       /\ Has(LinkOut, "inertial") =>
            OriginFollows(Get(LinkOut, "inertial"), Get(LinkIn, "inertial"))
       /\ Len(VisualsOut) = Len(VisualNodesIn) =>
            \A j \in 1..Len(VisualNodesIn) :
              OriginFollows(VisualsOut[j], VisualNodesIn[j])
       /\ Len(CollisionsOut) = Len(CollisionNodesIn) =>
            \A j \in 1..Len(CollisionNodesIn) :
              OriginFollows(CollisionsOut[j], CollisionNodesIn[j])
  /\ (ReturnedRobot /\ Len(Out("joints")) = Len(EmittedJointNodes)) =>
       \A i \in 1..Len(EmittedJointNodes) :
         /\ OriginFollows(Out("joints")[i], EmittedJointNodes[i])
         /\ (Get(EmittedJointNodes[i], "axis").t = "object"
               /\ ~HasAttr(Get(EmittedJointNodes[i], "axis"), "xyz")) =>
              Get(Get(Out("joints")[i], "axis"), "xyz") =
                Vector3(Num(1), Num(0), Num(0))

----------------------------------------------------------------------------
(* one node or an array of one node                                        *)

(* entry is an array of exactly one node *)
OneElementArray(entry) == entry.t = "array" /\ Len(entry.a) = 1

(* node with the one-element array under k replaced by its element *)
Unwrapped(node, k) == Put(node, k, node.f[k].a[1])

(* what parse returns for the raw tree whose robot node is robot *)
ParseOfRobot(robot) == processURDF(Put(parsed, "robot", robot))

(* C26: when the link, joint, material or transmission entry of the robot   *)
(* node, or the visual or collision entry of its one link, is the          *)
(* one-element array [X], parse returns exactly what it returns for the    *)
(* raw tree that has the single node X in that place.                      *)
C26_OneOrManyMakesNoDifference ==
  RobotIsNode =>
    /\ \A k \in {"link", "joint", "material", "transmission"} :
         OneElementArray(Get(RawRobot, k)) =>
           outcome = ParseOfRobot(Unwrapped(RawRobot, k))
    /\ LinkIn.t = "object" =>
         \A k \in {"visual", "collision"} :
           OneElementArray(Get(LinkIn, k)) =>
             outcome = ParseOfRobot(Put(RawRobot, "link", Unwrapped(LinkIn, k)))

----------------------------------------------------------------------------
(* the sample document                                                     *)

SampleParsed == Called /\ parsed = SampleDoc

NameOf(node) == Get(node, "name")

(* the elements of the array out whose name is name *)
Named(out, name) == SelectSeq(out, LAMBDA e : NameOf(e) = name)

BaseToRightWheel ==
  Str(<<"b", "a", "s", "e", "_", "t", "o", "_", "r", "i", "g", "h", "t", "_",
        "w", "h", "e", "e", "l">>)

(* C25: parsing the sample document returns a Robot named simple_robot with *)
(* 7 links, 6 joints, 5 materials and 2 transmissions, whose joint         *)
(* base_to_right_wheel is continuous from base_link to right_wheel with    *)
(* axis xyz {0,1,0} and whose material blue has color rgba [0,0,1,1].      *)
C25_SampleDocument ==
  SampleParsed =>
    /\ ReturnedRobot
    /\ NameOf(outcome.robot) =
         Str(<<"s", "i", "m", "p", "l", "e", "_", "r", "o", "b", "o", "t">>)
    /\ Len(Out("links")) = 7
    /\ Len(Out("joints")) = 6
    /\ Len(Out("materials")) = 5
    /\ Len(Out("transmissions")) = 2
    /\ Len(Named(Out("joints"), BaseToRightWheel)) = 1
    /\ \A i \in 1..Len(Out("joints")) :
         NameOf(Out("joints")[i]) = BaseToRightWheel =>
           /\ Get(Out("joints")[i], "type") = Continuous
           /\ Get(Out("joints")[i], "parent") =
                Obj("link" :> Str(<<"b", "a", "s", "e", "_", "l", "i", "n", "k">>))
           /\ Get(Out("joints")[i], "child") =
                Obj("link" :> Str(<<"r", "i", "g", "h", "t", "_", "w", "h", "e",
                                    "e", "l">>))
           /\ Get(Get(Out("joints")[i], "axis"), "xyz") =
                Vector3(Num(0), Num(1), Num(0))
    /\ Len(Named(Out("materials"), Str(<<"b", "l", "u", "e">>))) = 1
    /\ \A i \in 1..Len(Out("materials")) :
         NameOf(Out("materials")[i]) = Str(<<"b", "l", "u", "e">>) =>
           Get(Get(Out("materials")[i], "color"), "rgba") =
             Arr(<<Num(0), Num(0), Num(1), Num(1)>>)

(* the sample document, with its 7 named link nodes, 6 complete joint      *)
(* nodes, 5 material nodes and 2 transmission nodes, has been parsed       *)
C25_Witness ==
  /\ SampleParsed
  /\ ReturnedRobot
  /\ Len(SelectSeq(LinkNodesIn, NamedLink)) = 7
  /\ Len(EmittedJointNodes) = 6
  /\ Len(MaterialNodesIn) = 5
  /\ Len(TransmissionNodesIn) = 2

----------------------------------------------------------------------------
(* the calls of parse on one instance                                      *)

Calls == 1..Len(outcome.results)

(* C23: a call of parse on a text the XML layer fails on throws that error  *)
(* to the caller and returns no Robot, not even a partial one.             *)
C23_XMLErrorIsRaised ==
  \A i \in Calls :
    ~parsed.texts[i].tokenizes =>
      /\ outcome.results[i] = Thrown(XMLErrorMessage)
      /\ "robot" \notin DOMAIN outcome.results[i]

(* a call on a text the XML layer fails on has thrown, after a call that   *)
(* returned a Robot                                                        *)
C23_Witness ==
  /\ Len(outcome.results) = 2
  /\ outcome.results[1].kind = "returned"
  /\ parsed.texts[2] = Untokenizable
  /\ outcome.results[2].kind = "thrown"

GivenXmlOptions == parsed.options.xmlParserOptions

(* the caller gave an attributeNamePrefix other than "@_" *)
OtherPrefixGiven ==
  /\ GivenXmlOptions # Undef
  /\ "attributeNamePrefix" \in DOMAIN GivenXmlOptions
  /\ GivenXmlOptions["attributeNamePrefix"] # DefaultPrefix

(* the text is a document whose root is a robot element with a name *)
NamedRobotText(text) ==
  /\ text.tokenizes
  /\ text.root.tag = "robot"
  /\ "name" \in DOMAIN text.root.attrs

(* C29: when the caller gives an attributeNamePrefix other than "@_", the   *)
(* XML layer of the instance writes attributes under that prefix, and      *)
(* every call of parse on a document whose root is a named robot returns   *)
(* a Robot, without an error, with name "" and no links and no joints.     *)
C29_OtherPrefixDropsEverything ==
  OtherPrefixGiven =>
    /\ parsed.instance.parser["attributeNamePrefix"] =
         GivenXmlOptions["attributeNamePrefix"]
    /\ \A i \in Calls :
         NamedRobotText(parsed.texts[i]) =>
           /\ outcome.results[i].kind = "returned"
           /\ Get(outcome.results[i].robot, "name") = EmptyStr
           /\ Get(outcome.results[i].robot, "links") = EmptyArr
           /\ Get(outcome.results[i].robot, "joints") = EmptyArr

(* a parser constructed with the prefix "_custom_" has parsed a document   *)
(* of a named robot with named links and a complete joint, and returned a  *)
(* Robot with name "" and no links and no joints                           *)
C29_Witness ==
  /\ OtherPrefixGiven
  /\ GivenXmlOptions["attributeNamePrefix"] = CustomPrefix
  /\ Len(outcome.results) = 1
  /\ NamedRobotText(parsed.texts[1])
  /\ Len(Tagged(parsed.texts[1].root.kids, "link")) = 2
  /\ Len(Tagged(parsed.texts[1].root.kids, "joint")) = 1
  /\ outcome.results[1].kind = "returned"
  /\ Get(outcome.results[1].robot, "name") = EmptyStr
  /\ Get(outcome.results[1].robot, "links") = EmptyArr
  /\ Get(outcome.results[1].robot, "joints") = EmptyArr

====
